---- MODULE Spec2Model ----
(***************************************************************************)
(* Financial scoring / report engine of src/test_financial_function.py.    *)
(*                                                                         *)
(* Number representation.  Metric values of a record are decimals written  *)
(* with at most two places; they are kept as integers in hundredths        *)
(* (28.5 is 2850).  The overall score is a sum of band scores times 0.25,  *)
(* kept as an integer in thousandths (72.5 is 72500), so that round(x, 2)  *)
(* and int(x) are real computations on it.                                 *)
(*                                                                         *)
(* After the engine come the Discord bot of                                *)
(* src/autogen/discord_bot_prototype (BotSpec, ConversationSpec,           *)
(* HumanInputSpec), two helpers of the agent front ends (FrontEndSpec) and *)
(* compare_stocks (CompareSpec).                                           *)
(***************************************************************************)
EXTENDS Integers, Sequences, FiniteSets, TLC

VARIABLES MOCK_FINANCIAL_DATA, clock, call, threads, bot, conversation

vars == <<MOCK_FINANCIAL_DATA, clock, call, threads, bot, conversation>>

(***************************************************************************)
(* Bounds of the model.                                                    *)
(***************************************************************************)
\* largest metric value (in hundredths) given to a scoring function
MaxMetric == 2600
\* length of the whitespace put before or after a ticker
MaxPad == 2
\* number of service calls of one behaviour; a call takes one clock tick
MaxClock == 1
\* market caps given to format_market_cap lie this many units of 10^4
\* dollars or less from 0, 10^6, 10^9 or 10^12 dollars
MaxOffset == 20
\* number of calls of analyze_stock that concurrent callers make in one
\* behaviour, those that analyze_all_stocks makes included
MaxCalls == 9

Cents(n) == n * 100
Milli(n) == n * 1000

(***************************************************************************)
(* Configuration constants.                                                *)
(***************************************************************************)
PE_EXCELLENT == 15
PE_GOOD == 20
ROE_EXCELLENT == 20
ROE_GOOD == 10
EV_EBITDA_EXCELLENT == 10
EV_EBITDA_GOOD == 15
EPS_EXCELLENT == 5
EPS_GOOD == 1

\* ScoringWeights: 0.25 each, in thousandths of a score point per band point
PE_RATIO == 250
ROE == 250
EV_EBITDA == 250
EPS == 250

EXCELLENT == 100
GOOD == 80
FAIR == 70
POOR == 50
VERY_POOR == 40

UNDERVALUED_THRESHOLD == 80
FAIRLY_VALUED_THRESHOLD == 60
UNDERVALUED == "Undervalued"
FAIRLY_VALUED == "Fairly valued"
OVERVALUED == "Overvalued"

(***************************************************************************)
(* Python values.  A value of a record is tagged with its Python type, so  *)
(* that `is None`, truthiness and a comparison with a number that raises   *)
(* TypeError can be told apart.                                            *)
(***************************************************************************)
None == [t |-> "NoneType"]
Num(v) == [t |-> "number", v |-> v]
Str(s) == [t |-> "str", s |-> s]
IsNone(x) == x.t = "NoneType"
IsNum(x) == x.t = "number"

\* dict.get(key) and dict.get(key, default)
Get(d, k) == IF k \in DOMAIN d THEN d[k] ELSE None
GetOr(d, k, default) == IF k \in DOMAIN d THEN d[k] ELSE default

merge_analysis_only(a, b) == b

\* {**a, **b}: the keys of both, b's value where both have the key
Merge(a, b) == [k \in DOMAIN a \cup DOMAIN b |-> IF k \in DOMAIN b THEN b[k] ELSE a[k]]

ScoredMetrics == <<"peRatio", "roe", "evToEbitda", "eps">>

(***************************************************************************)
(* FinancialMetricsScorer                                                  *)
(***************************************************************************)
score_pe_ratio_inclusive(pe_ratio) ==
    IF pe_ratio <= Cents(PE_EXCELLENT) THEN EXCELLENT
    ELSE IF pe_ratio <= Cents(PE_GOOD) THEN GOOD
    ELSE POOR

score_pe_ratio(pe_ratio) ==
    IF pe_ratio < Cents(PE_EXCELLENT) THEN EXCELLENT
    ELSE IF pe_ratio < Cents(PE_GOOD) THEN GOOD
    ELSE POOR

score_roe(roe) ==
    IF roe > Cents(ROE_EXCELLENT) THEN EXCELLENT
    ELSE IF roe > Cents(ROE_GOOD) THEN GOOD
    ELSE POOR

score_ev_ebitda_shared_band(ev_ebitda) ==
    IF ev_ebitda < Cents(EV_EBITDA_EXCELLENT) THEN EXCELLENT
    ELSE IF ev_ebitda < Cents(EV_EBITDA_GOOD) THEN GOOD
    ELSE POOR

score_ev_ebitda(ev_ebitda) ==
    IF ev_ebitda < Cents(EV_EBITDA_EXCELLENT) THEN EXCELLENT
    ELSE IF ev_ebitda < Cents(EV_EBITDA_GOOD) THEN FAIR
    ELSE VERY_POOR

score_eps_shared_band(eps) ==
    IF eps > Cents(EPS_EXCELLENT) THEN EXCELLENT
    ELSE IF eps > Cents(EPS_GOOD) THEN GOOD
    ELSE POOR

score_eps(eps) ==
    IF eps > Cents(EPS_EXCELLENT) THEN EXCELLENT
    ELSE IF eps > Cents(EPS_GOOD) THEN FAIR
    ELSE VERY_POOR

(***************************************************************************)
(* Ticker strings are sequences of characters, so that upper() and strip() *)
(* are computed.                                                           *)
(***************************************************************************)
T_AAPL == <<"A", "A", "P", "L">>
T_MSFT == <<"M", "S", "F", "T">>
T_GOOGL == <<"G", "O", "O", "G", "L">>
T_TSLA == <<"T", "S", "L", "A">>
T_NVDA == <<"N", "V", "D", "A">>
T_JPM == <<"J", "P", "M">>
T_WMT == <<"W", "M", "T">>

(***************************************************************************)
(* MOCK_FINANCIAL_DATA as written in the source.  marketCap is kept in     *)
(* units of 10^4 dollars (every value of the table is a whole number of    *)
(* them, and 10^12 dollars is 10^8 units, within 32-bit integers), the     *)
(* other decimals in hundredths.                                           *)
(***************************************************************************)
Record_AAPL ==
    [ companyName |-> Str("Apple Inc."),
      peRatio |-> Num(2850),
      roe |-> Num(2240),
      evToEbitda |-> Num(1820),
      eps |-> Num(605),
      debtToEquity |-> Num(31),
      marketCap |-> Num(280000000),
      sector |-> Str("Technology"),
      industry |-> Str("Consumer Electronics"),
      closePrice |-> Num(17584),
      totalScore |-> Num(85),
      fundamentalScore |-> Num(82),
      technicalScore |-> Num(88),
      quantScore |-> Num(85),
      rank |-> Num(15),
      tradeDate |-> Str("2024-01-15") ]

Record_MSFT ==
    [ companyName |-> Str("Microsoft Corporation"),
      peRatio |-> Num(3210),
      roe |-> Num(1870),
      evToEbitda |-> Num(2240),
      eps |-> Num(965),
      debtToEquity |-> Num(47),
      marketCap |-> Num(275000000),
      sector |-> Str("Technology"),
      industry |-> Str("Software"),
      closePrice |-> Num(37073),
      totalScore |-> Num(78),
      fundamentalScore |-> Num(75),
      technicalScore |-> Num(82),
      quantScore |-> Num(77),
      rank |-> Num(28),
      tradeDate |-> Str("2024-01-15") ]

Record_GOOGL ==
    [ companyName |-> Str("Alphabet Inc."),
      peRatio |-> Num(2480),
      roe |-> Num(1520),
      evToEbitda |-> Num(1470),
      eps |-> Num(580),
      debtToEquity |-> Num(12),
      marketCap |-> Num(165000000),
      sector |-> Str("Technology"),
      industry |-> Str("Internet Services"),
      closePrice |-> Num(13969),
      totalScore |-> Num(82),
      fundamentalScore |-> Num(80),
      technicalScore |-> Num(85),
      quantScore |-> Num(81),
      rank |-> Num(20),
      tradeDate |-> Str("2024-01-15") ]

Record_TSLA ==
    [ companyName |-> Str("Tesla Inc."),
      peRatio |-> Num(4890),
      roe |-> Num(1930),
      evToEbitda |-> Num(3210),
      eps |-> Num(430),
      debtToEquity |-> Num(17),
      marketCap |-> Num(65000000),
      sector |-> Str("Consumer Discretionary"),
      industry |-> Str("Electric Vehicles"),
      closePrice |-> Num(20783),
      totalScore |-> Num(65),
      fundamentalScore |-> Num(60),
      technicalScore |-> Num(72),
      quantScore |-> Num(63),
      rank |-> Num(95),
      tradeDate |-> Str("2024-01-15") ]

Record_NVDA ==
    [ companyName |-> Str("NVIDIA Corporation"),
      peRatio |-> Num(6420),
      roe |-> Num(2810),
      evToEbitda |-> Num(4530),
      eps |-> Num(1228),
      debtToEquity |-> Num(24),
      marketCap |-> Num(175000000),
      sector |-> Str("Technology"),
      industry |-> Str("Semiconductors"),
      closePrice |-> Num(72248),
      totalScore |-> Num(70),
      fundamentalScore |-> Num(68),
      technicalScore |-> Num(75),
      quantScore |-> Num(67),
      rank |-> Num(75),
      tradeDate |-> Str("2024-01-15") ]

Record_JPM ==
    [ companyName |-> Str("JPMorgan Chase & Co."),
      peRatio |-> Num(1280),
      roe |-> Num(1640),
      evToEbitda |-> Num(890),
      eps |-> Num(1536),
      debtToEquity |-> Num(118),
      marketCap |-> Num(48500000),
      sector |-> Str("Financial Services"),
      industry |-> Str("Banking"),
      closePrice |-> Num(16812),
      totalScore |-> Num(88),
      fundamentalScore |-> Num(92),
      technicalScore |-> Num(85),
      quantScore |-> Num(87),
      rank |-> Num(8),
      tradeDate |-> Str("2024-01-15") ]

Record_WMT ==
    [ companyName |-> Str("Walmart Inc."),
      peRatio |-> Num(2670),
      roe |-> Num(1280),
      evToEbitda |-> Num(1240),
      eps |-> Num(232),
      debtToEquity |-> Num(56),
      marketCap |-> Num(46000000),
      sector |-> Str("Consumer Staples"),
      industry |-> Str("Retail"),
      closePrice |-> Num(16589),
      totalScore |-> Num(75),
      fundamentalScore |-> Num(78),
      technicalScore |-> Num(73),
      quantScore |-> Num(74),
      rank |-> Num(45),
      tradeDate |-> Str("2024-01-15") ]


\* the keys of the table, in insertion order
TickerOrder == <<T_AAPL, T_MSFT, T_GOOGL, T_TSLA, T_NVDA, T_JPM, T_WMT>>

BuiltInData ==
    (T_AAPL :> Record_AAPL) @@ (T_MSFT :> Record_MSFT) @@ (T_GOOGL :> Record_GOOGL)
    @@ (T_TSLA :> Record_TSLA) @@ (T_NVDA :> Record_NVDA) @@ (T_JPM :> Record_JPM)
    @@ (T_WMT :> Record_WMT)

(***************************************************************************)
(* Repositories the engine is run on: the built-in table, in which the     *)
(* four scored metrics of one record are replaced (a test double), each by *)
(* a value on or next to a threshold, by zero, by a negative value, by     *)
(* None, or by leaving the key out.                                        *)
(***************************************************************************)
Missing == [t |-> "missing"]
Degenerate == {Missing, None, Num(0), Num(0 - Cents(1))}

\* one value of each band; the thresholds themselves are among them
LowerIsBetter(excellent, good) ==
    {Num(Cents(excellent) - 50), Num(Cents(excellent)), Num(Cents(good))}
HigherIsBetter(excellent, good) ==
    {Num(Cents(excellent) + 50), Num(Cents(excellent)), Num(Cents(good))}

MetricSamples ==
    [ peRatio |-> Degenerate \cup LowerIsBetter(PE_EXCELLENT, PE_GOOD),
      roe |-> Degenerate \cup HigherIsBetter(ROE_EXCELLENT, ROE_GOOD),
      evToEbitda |-> Degenerate \cup LowerIsBetter(EV_EBITDA_EXCELLENT, EV_EBITDA_GOOD),
      eps |-> Degenerate \cup HigherIsBetter(EPS_EXCELLENT, EPS_GOOD) ]

\* a metric that is not a number: malformed reference data
Malformed == Str("n/a")

WellFormedPatches ==
    [peRatio : MetricSamples.peRatio, roe : MetricSamples.roe,
     evToEbitda : MetricSamples.evToEbitda, eps : MetricSamples.eps]

MalformedPatches ==
    { p \in [peRatio : MetricSamples.peRatio \cup {Malformed},
             roe : MetricSamples.roe \cup {Malformed},
             evToEbitda : MetricSamples.evToEbitda \cup {Malformed},
             eps : MetricSamples.eps \cup {Malformed}] :
        \E m \in DOMAIN p : p[m] = Malformed }

PatchedTicker == T_WMT

\* the record with its scored metrics set as the patch says
WithMetrics(record, patch) ==
    [ k \in {f \in DOMAIN record : f \in DOMAIN patch => patch[f] # Missing} |->
        IF k \in DOMAIN patch THEN patch[k] ELSE record[k] ]

Repository(patch) ==
    [BuiltInData EXCEPT ![PatchedTicker] = WithMetrics(BuiltInData[PatchedTicker], patch)]

(***************************************************************************)
(* str.upper() and str.strip() on sequences of characters                  *)
(***************************************************************************)
Lowercase == <<"a", "b", "c", "d", "e", "f", "g", "h", "i", "j", "k", "l", "m",
               "n", "o", "p", "q", "r", "s", "t", "u", "v", "w", "x", "y", "z">>
Uppercase == <<"A", "B", "C", "D", "E", "F", "G", "H", "I", "J", "K", "L", "M",
               "N", "O", "P", "Q", "R", "S", "T", "U", "V", "W", "X", "Y", "Z">>
Whitespace == {" ", "\t", "\n", "\r"}

ToUpper ==
    [c \in {Lowercase[i] : i \in 1..Len(Lowercase)} |->
        Uppercase[CHOOSE i \in 1..Len(Lowercase) : Lowercase[i] = c]]
ToLower ==
    [c \in {Uppercase[i] : i \in 1..Len(Uppercase)} |->
        Lowercase[CHOOSE i \in 1..Len(Uppercase) : Uppercase[i] = c]]

UpperChar(c) == IF c \in DOMAIN ToUpper THEN ToUpper[c] ELSE c

LowerChar(c) == IF c \in DOMAIN ToLower THEN ToLower[c] ELSE c

upper(s) == [i \in 1..Len(s) |-> UpperChar(s[i])]

RECURSIVE lstrip(_)
lstrip(s) == IF s # <<>> /\ Head(s) \in Whitespace THEN lstrip(Tail(s)) ELSE s

RECURSIVE rstrip(_)
rstrip(s) ==
    IF s # <<>> /\ s[Len(s)] \in Whitespace THEN rstrip(SubSeq(s, 1, Len(s) - 1)) ELSE s

strip(s) == rstrip(lstrip(s))

(***************************************************************************)
(* Number formatting.  A formatted number is kept as the rounded value     *)
(* scaled by 10^places, with the text put before and after it.             *)
(***************************************************************************)
\* x / d rounded to the nearest integer, a tie going to the even one
DivRoundHalfEven(x, d) ==
    LET q == x \div d
        r == x % d
    IN  IF 2 * r < d THEN q
        ELSE IF 2 * r > d THEN q + 1
        ELSE IF q % 2 = 0 THEN q ELSE q + 1

\* round(score, 2) on a score in thousandths
Round2(x) == DivRoundHalfEven(x, 10) * 10

\* int(score) on a score in thousandths: truncation towards zero
IntOf(x) == IF x >= 0 THEN x \div 1000 ELSE 0 - ((0 - x) \div 1000)

Fixed(prefix, scaled, places, suffix) ==
    [prefix |-> prefix, scaled |-> scaled, places |-> places, suffix |-> suffix]

\* f"{score:.1f}" of a score in thousandths
ScoreText(score) == Fixed("", DivRoundHalfEven(score, 100), 1, "")

(***************************************************************************)
(* Utility functions                                                       *)
(***************************************************************************)
\* 10^12, 10^9 and 10^6 dollars in units of 10^4 dollars
Trillion == 100000000
Billion == 100000
Million == 100

format_market_cap_exclusive(market_cap) ==
    IF IsNone(market_cap) THEN Str("N/A")
    ELSE IF market_cap.v > Trillion
        THEN Fixed("$", DivRoundHalfEven(market_cap.v, Trillion \div 100), 2, "T")
    ELSE IF market_cap.v > Billion
        THEN Fixed("$", DivRoundHalfEven(market_cap.v, Billion \div 100), 2, "B")
    ELSE IF market_cap.v > Million
        THEN Fixed("$", DivRoundHalfEven(market_cap.v, Million \div 100), 2, "M")
    ELSE Fixed("$", market_cap.v * 10000, 0, "")

\* the quotient with two places is the value in hundredths of the unit
format_market_cap(market_cap) ==
    IF IsNone(market_cap) THEN Str("N/A")
    ELSE IF market_cap.v >= Trillion
        THEN Fixed("$", DivRoundHalfEven(market_cap.v, Trillion \div 100), 2, "T")
    ELSE IF market_cap.v >= Billion
        THEN Fixed("$", DivRoundHalfEven(market_cap.v, Billion \div 100), 2, "B")
    ELSE IF market_cap.v >= Million
        THEN Fixed("$", DivRoundHalfEven(market_cap.v, Million \div 100), 2, "M")
    ELSE Fixed("$", market_cap.v * 10000, 0, "")

get_performance_indicator_strict(score) ==
    IF score > 90 THEN "Excellent"
    ELSE IF score > 80 THEN "Very Good"
    ELSE IF score > 70 THEN "Good"
    ELSE IF score > 60 THEN "Fair"
    ELSE IF score > 50 THEN "Poor"
    ELSE "Very Poor"

get_performance_indicator(score) ==
    IF score >= 90 THEN "Excellent"
    ELSE IF score >= 80 THEN "Very Good"
    ELSE IF score >= 70 THEN "Good"
    ELSE IF score >= 60 THEN "Fair"
    ELSE IF score >= 50 THEN "Poor"
    ELSE "Very Poor"

get_valuation_indicator(valuation) ==
    IF valuation = "Undervalued" THEN "Undervalued (Potential Buy)"
    ELSE IF valuation = "Fairly valued" THEN "Fairly Valued (Hold/Monitor)"
    ELSE "Overvalued (Consider Carefully)"

(***************************************************************************)
(* TestFinancialDataService: scoring                                       *)
(***************************************************************************)
\* `value is not None and value > 0` raises TypeError on a value that is
\* neither None nor a number
IsValidMetricRaises(value) == ~IsNone(value) /\ ~IsNum(value)

is_valid_metric_nonnegative(value) == ~IsNone(value) /\ value.v >= 0

_is_valid_metric(value) == ~IsNone(value) /\ value.v > 0

EmptyDict == [k \in {} |-> 0]

Put(d, k, v) == [x \in DOMAIN d \cup {k} |-> IF x = k THEN v ELSE d[x]]

\* one `if self._is_valid_metric(...)` block of _calculate_overall_score
ScoreStep(acc, data, key, metric_score, weight) ==
    IF _is_valid_metric(Get(data, key))
    THEN [ total_weighted_score |-> acc.total_weighted_score + metric_score * weight,
           score_breakdown |-> Put(acc.score_breakdown, key, metric_score),
           valid_metrics_count |-> acc.valid_metrics_count + 1 ]
    ELSE acc

CalculateRaises(data) ==
    \E i \in 1..Len(ScoredMetrics) : IsValidMetricRaises(Get(data, ScoredMetrics[i]))

calculate_overall_score_renormalized(data) ==
    LET a0 == [total_weighted_score |-> 0, score_breakdown |-> EmptyDict,
               valid_metrics_count |-> 0]
        a1 == ScoreStep(a0, data, "peRatio", score_pe_ratio(Get(data, "peRatio").v), 1000)
        a2 == ScoreStep(a1, data, "roe", score_roe(Get(data, "roe").v), 1000)
        a3 == ScoreStep(a2, data, "evToEbitda",
                        score_ev_ebitda(Get(data, "evToEbitda").v), 1000)
        a4 == ScoreStep(a3, data, "eps", score_eps(Get(data, "eps").v), 1000)
    IN  [a4 EXCEPT !.total_weighted_score =
            IF a4.valid_metrics_count = 0 THEN 0 ELSE @ \div a4.valid_metrics_count]

_calculate_overall_score(data) ==
    LET a0 == [total_weighted_score |-> 0, score_breakdown |-> EmptyDict,
               valid_metrics_count |-> 0]
        a1 == ScoreStep(a0, data, "peRatio", score_pe_ratio(Get(data, "peRatio").v), PE_RATIO)
        a2 == ScoreStep(a1, data, "roe", score_roe(Get(data, "roe").v), ROE)
        a3 == ScoreStep(a2, data, "evToEbitda",
                        score_ev_ebitda(Get(data, "evToEbitda").v), EV_EBITDA)
        a4 == ScoreStep(a3, data, "eps", score_eps(Get(data, "eps").v), EPS)
    IN  a4

determine_valuation_category_strict(score) ==
    IF score > Milli(UNDERVALUED_THRESHOLD) THEN UNDERVALUED
    ELSE IF score > Milli(FAIRLY_VALUED_THRESHOLD) THEN FAIRLY_VALUED
    ELSE OVERVALUED

_determine_valuation_category(score) ==
    IF score >= Milli(UNDERVALUED_THRESHOLD) THEN UNDERVALUED
    ELSE IF score >= Milli(FAIRLY_VALUED_THRESHOLD) THEN FAIRLY_VALUED
    ELSE OVERVALUED

(***************************************************************************)
(* TestFinancialDataService: rationale and report                          *)
(***************************************************************************)
\* Python truthiness of a value of a record
Truthy(x) ==
    /\ ~IsNone(x)
    /\ IsNum(x) => x.v # 0
    /\ x.t = "str" => x.s # ""

\* str.lower() of a valuation category
lower(valuation) ==
    CASE valuation = UNDERVALUED -> "undervalued"
      [] valuation = FAIRLY_VALUED -> "fairly valued"
      [] valuation = OVERVALUED -> "overvalued"

display_when_valid(data, key, suffix) ==
    IF _is_valid_metric(Get(data, key)) THEN Fixed("", Get(data, key).v, 2, suffix)
    ELSE Str("N/A")

\* f"{data.get(key, 0):.2f}" if data.get(key) else 'N/A', with its suffix
Display(data, key, suffix) ==
    IF Truthy(Get(data, key)) THEN Fixed("", Get(data, key).v, 2, suffix) ELSE Str("N/A")

_generate_analysis_rationale(data, score, valuation, metrics_count) ==
    [ text |-> "TEST Financial Analysis",
      company_name |-> GetOr(data, "companyName", Str("Unknown Company")),
      score |-> ScoreText(score),
      metrics_count |-> metrics_count,
      pe_display |-> Display(data, "peRatio", ""),
      roe_display |-> Display(data, "roe", "%"),
      ev_display |-> Display(data, "evToEbitda", ""),
      eps_display |-> Display(data, "eps", ""),
      valuation |-> lower(valuation) ]

metrics_info_reordered ==
    << [key |-> "peRatio", name |-> "P/E Ratio", unit |-> "x"],
       [key |-> "evToEbitda", name |-> "EV/EBITDA", unit |-> "x"],
       [key |-> "roe", name |-> "ROE", unit |-> "%"],
       [key |-> "eps", name |-> "EPS", unit |-> "$"] >>

metrics_info ==
    << [key |-> "peRatio", name |-> "P/E Ratio", unit |-> "x"],
       [key |-> "roe", name |-> "ROE", unit |-> "%"],
       [key |-> "evToEbitda", name |-> "EV/EBITDA", unit |-> "x"],
       [key |-> "eps", name |-> "EPS", unit |-> "$"] >>

\* the value of a metric line; a value in hundredths shown with one place is
\* rounded on its decimal value
value_str(value, unit) ==
    IF unit = "$" THEN Fixed("$", value.v, 2, "")
    ELSE IF unit = "%" THEN Fixed("", DivRoundHalfEven(value.v, 10), 1, "%")
    ELSE Fixed("", DivRoundHalfEven(value.v, 10), 1, unit)

RECURSIVE MetricLines(_, _, _)
MetricLines(financial_data, score_breakdown, i) ==
    IF i > Len(metrics_info) THEN <<>>
    ELSE LET m == metrics_info[i]
             value == Get(financial_data, m.key)
             rest == MetricLines(financial_data, score_breakdown, i + 1)
         IN  IF ~IsNone(value) /\ m.key \in DOMAIN score_breakdown
             THEN << [ text |-> "metric", key |-> m.key, name |-> m.name,
                       value |-> value_str(value, m.unit),
                       indicator |-> get_performance_indicator(score_breakdown[m.key]) ] >>
                  \o rest
             ELSE rest

recommendation_by_label_spelling(valuation) ==
    IF valuation = "Undervalued" THEN "Test Recommendation: Consider for investment"
    ELSE IF valuation = "Fairly Valued" THEN "Test Recommendation: Hold or monitor"
    ELSE "Test Recommendation: Proceed with caution"

Recommendation(valuation) ==
    IF valuation = "Undervalued" THEN "Test Recommendation: Consider for investment"
    ELSE IF valuation = "Fairly valued" THEN "Test Recommendation: Hold or monitor"
    ELSE "Test Recommendation: Proceed with caution"

_create_user_friendly_report(financial_data, analysis_results) ==
    LET overall_score == analysis_results.score
        valuation == analysis_results.valuation
        score_breakdown == analysis_results.scoreBreakdown
    IN  << [ text |-> "TEST ANALYSIS",
             company_name |-> GetOr(financial_data, "companyName", Str("Unknown Company")),
             sector |-> GetOr(financial_data, "sector", Str("Unknown")) ],
           [ text |-> "Market Cap",
             value |-> format_market_cap(Get(financial_data, "marketCap")) ],
           [ text |-> "Close Price",
             value |-> Fixed("$", GetOr(financial_data, "closePrice", Num(0)).v, 2, "") ],
           [ text |-> "Rank", value |-> GetOr(financial_data, "rank", Str("N/A")) ],
           [ text |-> "" ],
           [ text |-> "Overall Score", score |-> ScoreText(overall_score),
             indicator |-> get_performance_indicator(IntOf(overall_score)) ],
           [ text |-> get_valuation_indicator(valuation) ],
           [ text |-> "" ],
           [ text |-> "Key Metrics:" ] >>
        \o MetricLines(financial_data, score_breakdown, 1)
        \o << [ text |-> "" ],
              [ text |-> "Additional Test Data:" ],
              [ text |-> "Fundamental Score",
                value |-> GetOr(financial_data, "fundamentalScore", Str("N/A")) ],
              [ text |-> "Technical Score",
                value |-> GetOr(financial_data, "technicalScore", Str("N/A")) ],
              [ text |-> "Quant Score",
                value |-> GetOr(financial_data, "quantScore", Str("N/A")) ],
              [ text |-> "Total Score",
                value |-> GetOr(financial_data, "totalScore", Str("N/A")) ],
              [ text |-> "" ],
              [ text |-> Recommendation(valuation) ],
              [ text |-> "" ],
              [ text |-> "This is a TEST analysis using mock data" ],
              [ text |-> "For educational and testing purposes only. Not investment advice." ] >>

(***************************************************************************)
(* TestFinancialDataService: analysis                                      *)
(***************************************************************************)
\* what a call does: it returns a value or it raises an exception
Returned(value) == [raised |-> FALSE, value |-> value]
Raised(exception) == [raised |-> TRUE, exception |-> exception]

TypeError == "'>' not supported between instances of 'str' and 'int'"
AttributeError == "'NoneType' object has no attribute 'upper'"

\* _perform_financial_analysis after its early return: lines 359 to 375
AnalysisResults(financial_data, calculated) ==
    LET overall_score == calculated.total_weighted_score
        score_breakdown == calculated.score_breakdown
        valid_metrics_count == calculated.valid_metrics_count
        valuation_category == _determine_valuation_category(overall_score)
        analysis_results ==
            [ score |-> Round2(overall_score),
              valuation |-> valuation_category,
              rationale |-> _generate_analysis_rationale(
                  financial_data, overall_score, valuation_category, valid_metrics_count),
              scoreBreakdown |-> score_breakdown,
              metricsAnalyzed |-> valid_metrics_count ]
    IN  Put(analysis_results, "userFriendlyReport",
            _create_user_friendly_report(financial_data, analysis_results))

perform_financial_analysis_without_early_return(financial_data) ==
    IF CalculateRaises(financial_data) THEN Raised(TypeError)
    ELSE Returned(AnalysisResults(financial_data, _calculate_overall_score(financial_data)))

_perform_financial_analysis(financial_data) ==
    IF CalculateRaises(financial_data) THEN Raised(TypeError)
    ELSE
    LET calculated == _calculate_overall_score(financial_data)
    IN  IF calculated.valid_metrics_count = 0
        THEN Returned(
            [ score |-> 0,
              valuation |-> "Unable to evaluate",
              rationale |->
                  Str("Insufficient financial data available for meaningful analysis."),
              scoreBreakdown |-> EmptyDict,
              metricsAnalyzed |-> 0,
              userFriendlyReport |->
                  Str("Unable to generate analysis report due to insufficient data.") ])
        ELSE Returned(AnalysisResults(financial_data, calculated))

_create_error_response(error_message, now) ==
    [ success |-> FALSE,
      error |-> error_message,
      timestamp |-> now,
      data_source |-> "mock_data" ]

\* dict order of the keys of the repository
get_available_tickers(repository) ==
    SelectSeq(TickerOrder, LAMBDA t : t \in DOMAIN repository)

\* a miss, or the copy of the record: a dict of its own, not the table's
get_mock_financial_data_without_copy(repository, ticker) ==
    IF ticker \notin DOMAIN repository THEN None
    ELSE [shared |-> TRUE, dict |-> repository[ticker]]

_get_mock_financial_data(repository, ticker) ==
    IF ticker \notin DOMAIN repository THEN None
    ELSE [shared |-> FALSE, dict |-> repository[ticker]]

\* ticker.upper().strip(); a ticker that is not a string has no upper()
normalize_without_strip(ticker) ==
    IF ticker.t = "str" THEN Returned(upper(ticker.s)) ELSE Raised(AttributeError)

Normalize(ticker) ==
    IF ticker.t = "str" THEN Returned(strip(upper(ticker.s))) ELSE Raised(AttributeError)

analyze_stock_try_without_empty_check(repository, ticker_arg, now) ==
    LET normalized == Normalize(ticker_arg)
        ticker == normalized.value
        found == _get_mock_financial_data(repository, ticker)
        financial_data == Put(found.dict, "dataRetrievedAt", now)
        analysis == _perform_financial_analysis(financial_data)
    IN  IF normalized.raised
        THEN [outcome |-> normalized, repository |-> repository]
        ELSE IF found = None
        THEN [ outcome |-> Returned(_create_error_response(
                   [ text |-> "Mock data not available for '{ticker}'. Available tickers: ",
                     ticker |-> ticker,
                     available |-> get_available_tickers(repository) ], now)),
               repository |-> repository ]
        ELSE [ outcome |->
                   IF analysis.raised THEN analysis
                   ELSE Returned(
                       [ success |-> TRUE,
                         ticker |-> ticker,
                         timestamp |-> now,
                         data_source |-> "mock_data",
                         data |-> Merge(financial_data, analysis.value) ]),
               repository |-> repository ]

\* The body of the try block of analyze_stock: what it returns or raises,
\* and the repository it leaves.  The store of dataRetrievedAt goes to the
\* dict that financial_data names.
AnalyzeStockTry(repository, ticker_arg, now) ==
    LET normalized == Normalize(ticker_arg)
        ticker == normalized.value
        found == _get_mock_financial_data(repository, ticker)
        financial_data == Put(found.dict, "dataRetrievedAt", now)
        analysis == _perform_financial_analysis(financial_data)
    IN  IF normalized.raised
        THEN [outcome |-> normalized, repository |-> repository]
        ELSE IF ticker = <<>>
        THEN [ outcome |-> Returned(_create_error_response(
                   [text |-> "Ticker symbol is required"], now)),
               repository |-> repository ]
        ELSE IF found = None
        THEN [ outcome |-> Returned(_create_error_response(
                   [ text |-> "Mock data not available for '{ticker}'. Available tickers: ",
                     ticker |-> ticker,
                     available |-> get_available_tickers(repository) ], now)),
               repository |-> repository ]
        ELSE [ outcome |->
                   IF analysis.raised THEN analysis
                   ELSE Returned(
                       [ success |-> TRUE,
                         ticker |-> ticker,
                         timestamp |-> now,
                         data_source |-> "mock_data",
                         data |-> Merge(financial_data, analysis.value) ]),
               repository |->
                   IF found.shared THEN [repository EXCEPT ![ticker] = financial_data]
                   ELSE repository ]

analyze_stock_unguarded(repository, ticker_arg, now) ==
    AnalyzeStockTry(repository, ticker_arg, now)

analyze_stock_fault_as_not_found(repository, ticker_arg, now) ==
    LET attempt == AnalyzeStockTry(repository, ticker_arg, now)
    IN  IF attempt.outcome.raised
        THEN [ outcome |-> Returned(_create_error_response(
                   [ text |-> "Mock data not available for '{ticker}'. Available tickers: ",
                     ticker |-> ticker_arg,
                     available |-> get_available_tickers(repository) ], now)),
               repository |-> attempt.repository ]
        ELSE attempt

\* analyze_stock: the try block, and the except clause that turns an
\* exception into an error response
analyze_stock(repository, ticker_arg, now) ==
    LET attempt == AnalyzeStockTry(repository, ticker_arg, now)
    IN  IF attempt.outcome.raised
        THEN [ outcome |-> Returned(_create_error_response(
                   [ text |-> "Internal error during test analysis: ",
                     error |-> attempt.outcome.exception ], now)),
               repository |-> attempt.repository ]
        ELSE attempt

RECURSIVE AnalyzeEach(_, _, _, _)
AnalyzeEach(repository, tickers, results, now) ==
    IF tickers = <<>> THEN [outcome |-> Returned(results), repository |-> repository]
    ELSE LET one == analyze_stock(repository, Str(Head(tickers)), now)
         IN  IF one.outcome.raised THEN one
             ELSE AnalyzeEach(one.repository, Tail(tickers),
                              Put(results, Head(tickers), one.outcome.value), now)

analyze_first_three_stocks(repository, now) ==
    AnalyzeEach(repository, SubSeq(get_available_tickers(repository), 1, 3), EmptyDict, now)

analyze_all_stocks(repository, now) ==
    AnalyzeEach(repository, get_available_tickers(repository), EmptyDict, now)

(***************************************************************************)
(* Inputs                                                                  *)
(***************************************************************************)
lower_ticker(s) == [i \in 1..Len(s) |-> LowerChar(s[i])]

\* n characters of whitespace
Pad(n) == [i \in 1..n |-> IF i % 2 = 1 THEN " " ELSE "\t"]

\* the spellings of a ticker: either letter case, and no whitespace or
\* MaxPad characters of it on either side
Variants(t) ==
    { Pad(l) \o c \o Pad(r) : l \in {0, MaxPad}, r \in {0, MaxPad}, c \in {t, lower_ticker(t)} }

T_UNKNOWN == <<"Z", "Z", "Z">>

\* the tickers given to analyze_stock: every spelling of the replaced
\* record's ticker, a built-in ticker, tickers the table does not have,
\* empty and blank strings, and a value that is not a string
TickerInputs ==
    {Str(s) : s \in Variants(PatchedTicker)
                    \cup {T_AAPL, T_UNKNOWN, Pad(MaxPad) \o lower_ticker(T_UNKNOWN) \o Pad(MaxPad),
                          <<>>, Pad(MaxPad)}}
    \cup {None}

(***************************************************************************)
(* The Discord bot of discord_financial_bot_fixed.py before any command:   *)
(* no conversation is registered.  One (channel, user) pair is modelled,   *)
(* so the registry has one key.  `bridges` are the DiscordAutoGenBridge    *)
(* objects made so far and `handlers` the position of the analyze_command  *)
(* call that made each of them.                                            *)
(***************************************************************************)
conversation_key == "channel_user"
NoBot == [active_conversations |-> [k \in {} |-> 0], bridges |-> <<>>, handlers |-> <<>>]
\* the value of `conversation` where no single conversation is followed
NoConversation == [pc |-> "none"]

(***************************************************************************)
(* The service as a state machine.  `call` is the last call made and what  *)
(* it gave; datetime.now() reads `clock`, and a call takes one tick.       *)
(***************************************************************************)
NoCall == [op |-> "none"]

\* the callers of the service and where each of them is in its call
Callers == {"caller1", "caller2"}
Idle == [pc |-> "idle"]
NoThreads == [c \in Callers |-> Idle]

Init ==
    /\ \E patch \in WellFormedPatches : MOCK_FINANCIAL_DATA = Repository(patch)
    /\ clock = 0
    /\ call = NoCall
    /\ threads = NoThreads
    /\ bot = NoBot
    /\ conversation = NoConversation

AnalyzeStock ==
    /\ clock < MaxClock
    /\ \E ticker \in TickerInputs :
        LET done == analyze_stock(MOCK_FINANCIAL_DATA, ticker, clock)
        IN  /\ call' = [op |-> "analyze_stock", arg |-> ticker, outcome |-> done.outcome]
            /\ MOCK_FINANCIAL_DATA' = done.repository
    /\ clock' = clock + 1
    /\ UNCHANGED <<threads, bot, conversation>>

AnalyzeAllStocks ==
    /\ clock < MaxClock
    /\ LET done == analyze_all_stocks(MOCK_FINANCIAL_DATA, clock)
       IN  /\ call' = [op |-> "analyze_all_stocks", outcome |-> done.outcome]
           /\ MOCK_FINANCIAL_DATA' = done.repository
    /\ clock' = clock + 1
    /\ UNCHANGED <<threads, bot, conversation>>

Next == AnalyzeStock \/ AnalyzeAllStocks

Spec == Init /\ [][Next]_vars

(***************************************************************************)
(* The same service on a repository with malformed reference data: at      *)
(* least one scored metric of the replaced record is not a number.         *)
(***************************************************************************)
FaultInit ==
    /\ \E patch \in MalformedPatches : MOCK_FINANCIAL_DATA = Repository(patch)
    /\ clock = 0
    /\ call = NoCall
    /\ threads = NoThreads
    /\ bot = NoBot
    /\ conversation = NoConversation

FaultSpec == FaultInit /\ [][Next]_vars

(***************************************************************************)
(* The scoring functions called on their own: the metric value is drawn    *)
(* at the start, from every positive value up to MaxMetric (in hundredths),*)
(* and one of the four functions is applied to it.                         *)
(***************************************************************************)
UnitInit ==
    /\ MOCK_FINANCIAL_DATA = BuiltInData
    /\ clock = 0
    /\ threads = NoThreads
    /\ bot = NoBot
    /\ conversation = NoConversation
    /\ \E x \in 1..MaxMetric : call = [op |-> "input", arg |-> x]

ScorePeRatio ==
    /\ call.op = "input"
    /\ call' = [op |-> "score_pe_ratio", arg |-> call.arg, result |-> score_pe_ratio(call.arg)]
    /\ UNCHANGED <<MOCK_FINANCIAL_DATA, clock, threads, bot, conversation>>

ScoreRoe ==
    /\ call.op = "input"
    /\ call' = [op |-> "score_roe", arg |-> call.arg, result |-> score_roe(call.arg)]
    /\ UNCHANGED <<MOCK_FINANCIAL_DATA, clock, threads, bot, conversation>>

ScoreEvEbitda ==
    /\ call.op = "input"
    /\ call' = [op |-> "score_ev_ebitda", arg |-> call.arg,
                result |-> score_ev_ebitda(call.arg)]
    /\ UNCHANGED <<MOCK_FINANCIAL_DATA, clock, threads, bot, conversation>>

ScoreEps ==
    /\ call.op = "input"
    /\ call' = [op |-> "score_eps", arg |-> call.arg, result |-> score_eps(call.arg)]
    /\ UNCHANGED <<MOCK_FINANCIAL_DATA, clock, threads, bot, conversation>>

UnitNext == ScorePeRatio \/ ScoreRoe \/ ScoreEvEbitda \/ ScoreEps

UnitSpec == UnitInit /\ [][UnitNext]_vars

(***************************************************************************)
(* Concurrent callers.  A call of analyze_stock is made of three steps     *)
(* that other callers' steps may come between: the normalization and the   *)
(* lookup (lines 296 to 307), the store of dataRetrievedAt (line 310), the *)
(* analysis and the result (lines 312 to 332).  analyze_all_stocks makes   *)
(* these calls one ticker after the other.  datetime.now() reads `clock`,  *)
(* the number of calls of analyze_stock that the calls started so far make.*)
(***************************************************************************)
ConcurrentInputs ==
    { Str(Pad(MaxPad) \o lower_ticker(T_WMT)), Str(T_UNKNOWN), None }

ConcurrentInit ==
    /\ MOCK_FINANCIAL_DATA = BuiltInData
    /\ clock = 0
    /\ call = NoCall
    /\ threads = NoThreads
    /\ bot = NoBot
    /\ conversation = NoConversation

CallAnalyzeStock(c) ==
    /\ threads[c].pc = "idle"
    /\ clock < MaxCalls
    /\ \E ticker \in ConcurrentInputs :
        threads' = [threads EXCEPT ![c] =
            [ pc |-> "lookup", op |-> "analyze_stock", arg |-> ticker,
              pending |-> <<>>, results |-> EmptyDict ]]
    /\ clock' = clock + 1
    /\ UNCHANGED <<MOCK_FINANCIAL_DATA, call, bot, conversation>>

CallAnalyzeAllStocks(c) ==
    /\ threads[c].pc = "idle"
    /\ LET tickers == get_available_tickers(MOCK_FINANCIAL_DATA)
       IN  /\ clock + Len(tickers) <= MaxCalls
           /\ threads' = [threads EXCEPT ![c] =
                   [ pc |-> "lookup", op |-> "analyze_all_stocks", arg |-> Str(Head(tickers)),
                     pending |-> Tail(tickers), results |-> EmptyDict ]]
           /\ clock' = clock + Len(tickers)
    /\ UNCHANGED <<MOCK_FINANCIAL_DATA, call, bot, conversation>>

\* analyze_stock returns `result` to caller c: the call is over, or the loop
\* of analyze_all_stocks stores the result and goes to its next ticker
Complete(c, result) ==
    LET thread == threads[c]
        results == Put(thread.results, thread.arg.s, result)
    IN  IF thread.op = "analyze_stock"
        THEN /\ call' = [ op |-> "analyze_stock", arg |-> thread.arg,
                          outcome |-> Returned(result), caller |-> c ]
             /\ threads' = [threads EXCEPT ![c] = Idle]
        ELSE IF thread.pending = <<>>
        THEN /\ call' = [ op |-> "analyze_all_stocks", outcome |-> Returned(results),
                          caller |-> c ]
             /\ threads' = [threads EXCEPT ![c] = Idle]
        ELSE /\ threads' = [threads EXCEPT ![c] =
                    [ pc |-> "lookup", op |-> thread.op, arg |-> Str(Head(thread.pending)),
                      pending |-> Tail(thread.pending), results |-> results ]]
             /\ UNCHANGED call

\* lines 296 to 307
Lookup(c) ==
    /\ threads[c].pc = "lookup"
    /\ LET normalized == Normalize(threads[c].arg)
           ticker == normalized.value
           found == _get_mock_financial_data(MOCK_FINANCIAL_DATA, ticker)
       IN  IF normalized.raised
           THEN Complete(c, _create_error_response(
                    [ text |-> "Internal error during test analysis: ",
                      error |-> normalized.exception ], clock))
           ELSE IF ticker = <<>>
           THEN Complete(c, _create_error_response(
                    [text |-> "Ticker symbol is required"], clock))
           ELSE IF found = None
           THEN Complete(c, _create_error_response(
                    [ text |-> "Mock data not available for '{ticker}'. Available tickers: ",
                      ticker |-> ticker,
                      available |-> get_available_tickers(MOCK_FINANCIAL_DATA) ], clock))
           ELSE /\ threads' = [threads EXCEPT ![c] =
                       [ pc |-> "stamp", op |-> @.op, arg |-> @.arg, pending |-> @.pending,
                         results |-> @.results, ticker |-> ticker, financial_data |-> found ]]
                /\ UNCHANGED call
    /\ UNCHANGED <<MOCK_FINANCIAL_DATA, clock, bot, conversation>>

\* line 310: the store goes to the dict that financial_data names, the
\* caller's own copy or the record of the table
Stamp(c) ==
    /\ threads[c].pc = "stamp"
    /\ LET thread == threads[c]
           stamped == Put(thread.financial_data.dict, "dataRetrievedAt", clock)
       IN  /\ threads' = [threads EXCEPT ![c] =
                   [thread EXCEPT !.pc = "analyze", !.financial_data.dict = stamped]]
           /\ MOCK_FINANCIAL_DATA' =
                   IF thread.financial_data.shared
                   THEN [ MOCK_FINANCIAL_DATA EXCEPT ![thread.ticker] =
                            Put(@, "dataRetrievedAt", clock) ]
                   ELSE MOCK_FINANCIAL_DATA
    /\ UNCHANGED <<clock, call, bot, conversation>>

\* lines 312 to 332
Analyze(c) ==
    /\ threads[c].pc = "analyze"
    /\ LET thread == threads[c]
           financial_data ==
               IF thread.financial_data.shared THEN MOCK_FINANCIAL_DATA[thread.ticker]
               ELSE thread.financial_data.dict
           analysis == _perform_financial_analysis(financial_data)
       IN  IF analysis.raised
           THEN Complete(c, _create_error_response(
                    [ text |-> "Internal error during test analysis: ",
                      error |-> analysis.exception ], clock))
           ELSE Complete(c, [ success |-> TRUE,
                              ticker |-> thread.ticker,
                              timestamp |-> clock,
                              data_source |-> "mock_data",
                              data |-> Merge(financial_data, analysis.value) ])
    /\ UNCHANGED <<MOCK_FINANCIAL_DATA, clock, bot, conversation>>

ConcurrentNext ==
    \E c \in Callers :
        \/ CallAnalyzeStock(c)
        \/ CallAnalyzeAllStocks(c)
        \/ Lookup(c)
        \/ Stamp(c)
        \/ Analyze(c)

ConcurrentSpec == ConcurrentInit /\ [][ConcurrentNext]_vars


(***************************************************************************)
(* format_market_cap called on its own, on no market cap and on the market *)
(* caps on and around the limits of the units.                             *)
(***************************************************************************)
MarketCapInputs ==
    {None} \cup
    { Num(limit + offset) :
        limit \in {0, Million, Billion, Trillion}, offset \in (0 - MaxOffset)..MaxOffset }

FormatInit ==
    /\ MOCK_FINANCIAL_DATA = BuiltInData
    /\ clock = 0
    /\ threads = NoThreads
    /\ bot = NoBot
    /\ conversation = NoConversation
    /\ \E market_cap \in {m \in MarketCapInputs : m = None \/ m.v >= 0} :
        call = [op |-> "input", arg |-> market_cap]

FormatMarketCap ==
    /\ call.op = "input"
    /\ call' = [ op |-> "format_market_cap", arg |-> call.arg,
                 result |-> format_market_cap(call.arg) ]
    /\ UNCHANGED <<MOCK_FINANCIAL_DATA, clock, threads, bot, conversation>>

FormatSpec == FormatInit /\ [][FormatMarketCap]_vars

(***************************************************************************)
(* Properties                                                              *)
(***************************************************************************)
IsAnalyzeStock == call.op = "analyze_stock"
Outcome == call.outcome
Result == call.outcome.value
Succeeded == IsAnalyzeStock /\ ~Outcome.raised /\ Result.success
Data == call.outcome.value.data

\* the call was given a spelling of the replaced record's ticker
OnPatchedTicker ==
    IsAnalyzeStock /\ call.arg.t = "str" /\ call.arg.s \in Variants(PatchedTicker)

PatchedRecord == MOCK_FINANCIAL_DATA[PatchedTicker]

\* present and strictly greater than zero
ValidIn(record, metric) ==
    /\ metric \in DOMAIN record
    /\ record[metric].t = "number"
    /\ record[metric].v > 0

ValidMetricsOf(record) ==
    {ScoredMetrics[i] : i \in {j \in 1..Len(ScoredMetrics) : ValidIn(record, ScoredMetrics[j])}}

RECURSIVE SumValues(_)
SumValues(d) ==
    IF DOMAIN d = {} THEN 0
    ELSE LET k == CHOOSE x \in DOMAIN d : TRUE
         IN  d[k] + SumValues([x \in DOMAIN d \ {k} |-> d[x]])

\* C1: each scoring function treats its thresholds as strict: P/E 15 scores
\* 80 and P/E 20 scores 50, ROE 20 scores 80 and ROE 10 scores 50, EV/EBITDA
\* 10 scores 70 and 15 scores 40, EPS 5 scores 70 and EPS 1 scores 40.
C1_StrictThresholds ==
    /\ (call.op = "score_pe_ratio" /\ call.arg = 1500) => call.result = 80
    /\ (call.op = "score_pe_ratio" /\ call.arg = 2000) => call.result = 50
    /\ (call.op = "score_roe" /\ call.arg = 2000) => call.result = 80
    /\ (call.op = "score_roe" /\ call.arg = 1000) => call.result = 50
    /\ (call.op = "score_ev_ebitda" /\ call.arg = 1000) => call.result = 70
    /\ (call.op = "score_ev_ebitda" /\ call.arg = 1500) => call.result = 40
    /\ (call.op = "score_eps" /\ call.arg = 500) => call.result = 70
    /\ (call.op = "score_eps" /\ call.arg = 100) => call.result = 40

C1_Witness == call.op = "score_pe_ratio" /\ call.arg = 1500 /\ call.result = 80

\* C2: for every positive metric value each scoring function returns the
\* band of the threshold table: P/E (<15 100, <20 80, else 50) and ROE
\* (>20 100, >10 80, else 50) a value of {100, 80, 50}; EV/EBITDA (<10 100,
\* <15 70, else 40) and EPS (>5 100, >1 70, else 40) a value of {100, 70, 40}.
C2_BandTable ==
    /\ call.op = "score_pe_ratio" =>
        /\ call.result = IF call.arg < 1500 THEN 100 ELSE IF call.arg < 2000 THEN 80 ELSE 50
        /\ call.result \in {100, 80, 50}
    /\ call.op = "score_roe" =>
        /\ call.result = IF call.arg > 2000 THEN 100 ELSE IF call.arg > 1000 THEN 80 ELSE 50
        /\ call.result \in {100, 80, 50}
    /\ call.op = "score_ev_ebitda" =>
        /\ call.result = IF call.arg < 1000 THEN 100 ELSE IF call.arg < 1500 THEN 70 ELSE 40
        /\ call.result \in {100, 70, 40}
    /\ call.op = "score_eps" =>
        /\ call.result = IF call.arg > 500 THEN 100 ELSE IF call.arg > 100 THEN 70 ELSE 40
        /\ call.result \in {100, 70, 40}

C2_Witness == call.op = "score_eps" /\ call.arg = 232 /\ call.result = 70

\* C3: analyze_stock("AAPL") on the built-in record (peRatio 28.5, roe 22.4,
\* evToEbitda 18.2, eps 6.05) returns success with scoreBreakdown
\* {peRatio: 50, roe: 100, evToEbitda: 40, eps: 100}, metricsAnalyzed 4,
\* score 72.5 and valuation "Fairly valued".
C3_Aapl ==
    (IsAnalyzeStock /\ call.arg = Str(<<"A", "A", "P", "L">>)) =>
        /\ ~Outcome.raised
        /\ Result.success
        /\ Data.peRatio = Num(2850) /\ Data.roe = Num(2240)
        /\ Data.evToEbitda = Num(1820) /\ Data.eps = Num(605)
        /\ Data.scoreBreakdown = [peRatio |-> 50, roe |-> 100, evToEbitda |-> 40, eps |-> 100]
        /\ Data.metricsAnalyzed = 4
        /\ Data.score = 72500
        /\ Data.valuation = "Fairly valued"

C3_Witness ==
    IsAnalyzeStock /\ call.arg = Str(<<"A", "A", "P", "L">>) /\ Result.success
    /\ Data.score = 72500

\* C4: the overall score is 0.25 times the sum of the sub-scores recorded in
\* scoreBreakdown, hence at most metricsAnalyzed * 25; one valid metric
\* scored 100 gives exactly 25.0, which is classified Overvalued.
C4_WeightedSum ==
    Succeeded =>
        /\ Data.score = 250 * SumValues(Data.scoreBreakdown)
        /\ Data.score <= Data.metricsAnalyzed * 25000
        /\ (Data.metricsAnalyzed = 1 /\ SumValues(Data.scoreBreakdown) = 100) =>
            (Data.score = 25000 /\ Data.valuation = "Overvalued")

C4_Witness ==
    Succeeded /\ Data.metricsAnalyzed = 1 /\ Data.score = 25000
    /\ Data.valuation = "Overvalued"

\* C5: scoreBreakdown has a key for a metric exactly when the record has the
\* metric and it is strictly greater than zero (a missing, None, zero or
\* negative metric gets no entry), and metricsAnalyzed is the number of keys
\* of scoreBreakdown.
C5_ScoredIffValid ==
    Succeeded =>
        /\ \A i \in 1..Len(ScoredMetrics) :
            ScoredMetrics[i] \in DOMAIN Data.scoreBreakdown
                <=> ValidIn(MOCK_FINANCIAL_DATA[Result.ticker], ScoredMetrics[i])
        /\ Data.metricsAnalyzed = Cardinality(DOMAIN Data.scoreBreakdown)

C5_Witness ==
    /\ Succeeded /\ OnPatchedTicker
    /\ "peRatio" \notin DOMAIN PatchedRecord
    /\ Get(PatchedRecord, "roe") = None
    /\ Get(PatchedRecord, "evToEbitda") = Num(0)
    /\ Get(PatchedRecord, "eps") = Num(550)
    /\ DOMAIN Data.scoreBreakdown = {"eps"}
    /\ Data.metricsAnalyzed = 1

\* C6: for a ticker that is found but whose record has no valid metric,
\* analyze_stock returns a successful result whose data has score 0,
\* valuation "Unable to evaluate", an empty scoreBreakdown, metricsAnalyzed
\* 0, the insufficient-data rationale and the report that says that no
\* report could be generated.
C6_NoValidMetric ==
    (OnPatchedTicker /\ ValidMetricsOf(PatchedRecord) = {}) =>
        /\ ~Outcome.raised
        /\ Result.success
        /\ Data.score = 0
        /\ Data.valuation = "Unable to evaluate"
        /\ DOMAIN Data.scoreBreakdown = {}
        /\ Data.metricsAnalyzed = 0
        /\ Data.rationale =
            Str("Insufficient financial data available for meaningful analysis.")
        /\ Data.userFriendlyReport =
            Str("Unable to generate analysis report due to insufficient data.")

C6_Witness ==
    /\ OnPatchedTicker /\ ValidMetricsOf(PatchedRecord) = {}
    /\ Get(PatchedRecord, "peRatio") = Num(0)
    /\ Get(PatchedRecord, "roe") = Num(0 - 100)
    /\ "evToEbitda" \notin DOMAIN PatchedRecord
    /\ Get(PatchedRecord, "eps") = None
    /\ Result.success /\ Data.valuation = "Unable to evaluate"

\* C7: the valuation of a non-degenerate result is the class of the score
\* the result carries: score >= 80 Undervalued, 60 <= score < 80 Fairly
\* valued, score < 60 Overvalued.
C7_ValuationOfScore ==
    (Succeeded /\ Data.metricsAnalyzed > 0) =>
        Data.valuation =
            IF Data.score >= 80000 THEN "Undervalued"
            ELSE IF Data.score >= 60000 THEN "Fairly valued"
            ELSE "Overvalued"

C7_Witness == Succeeded /\ Data.score = 80000 /\ Data.valuation = "Undervalued"
\* C8: analyze_stock on a ticker that the repository does not have returns
\* success false with an error message that names the normalized ticker;
\* and it never raises: for every input, one that makes the normalization
\* fail (a ticker that is not a string) or the analysis fail (a record with
\* a metric that is not a number) included, the caller gets a structured
\* result.
C8_NeverRaises ==
    /\ IsAnalyzeStock =>
        /\ ~Outcome.raised
        /\ Result.success \in BOOLEAN
        /\ {"success", "timestamp", "data_source"} \subseteq DOMAIN Result
        /\ ~Result.success => "error" \in DOMAIN Result
    /\ (IsAnalyzeStock
        /\ call.arg \in { Str(<<"Z", "Z", "Z">>),
                          Str(Pad(MaxPad) \o <<"z", "z", "z">> \o Pad(MaxPad)) }) =>
        /\ ~Result.success
        /\ Result.error.text
            = "Mock data not available for '{ticker}'. Available tickers: "
        /\ Result.error.ticker = <<"Z", "Z", "Z">>

\* the analysis of a malformed record failed and the caller got a result
C8_Witness ==
    /\ OnPatchedTicker
    /\ \E i \in 1..Len(ScoredMetrics) : Get(PatchedRecord, ScoredMetrics[i]) = Malformed
    /\ ~Outcome.raised
    /\ ~Result.success
    /\ Result.error.text = "Internal error during test analysis: "

\* a result with its timestamps set aside
StripTimes(result) ==
    IF result.success
    THEN [result EXCEPT !.timestamp = 0, !.data = [@ EXCEPT !.dataRetrievedAt = 0]]
    ELSE [result EXCEPT !.timestamp = 0]

\* C9: for every ticker t of the repository and every spelling of t that
\* differs from it in letter case and surrounding whitespace only,
\* analyze_stock returns what analyze_stock(t) returns: the same success
\* flag, ticker field and data, timestamps aside.
C9_SameForEverySpelling ==
    \A t \in DOMAIN MOCK_FINANCIAL_DATA :
        (IsAnalyzeStock /\ call.arg.t = "str" /\ call.arg.s \in Variants(t)) =>
            /\ ~Outcome.raised
            /\ Result.success
            /\ Result.ticker = t
            /\ \A now \in 0..MaxClock :
                StripTimes(Result)
                    = StripTimes(analyze_stock(MOCK_FINANCIAL_DATA, Str(t), now).outcome.value)

C9_Witness ==
    /\ IsAnalyzeStock
    /\ call.arg = Str(Pad(MaxPad) \o <<"w", "m", "t">> \o Pad(MaxPad))
    /\ Result.success
    /\ Result.ticker = <<"W", "M", "T">>
    /\ Data.metricsAnalyzed = 4

\* C10: analyze_all_stocks returns a mapping with exactly one entry per
\* ticker of the repository, and each entry is what analyze_stock returns
\* for that ticker alone, a success for every ticker of the repository.
C10_OneEntryPerTicker ==
    call.op = "analyze_all_stocks" =>
        /\ ~Outcome.raised
        /\ DOMAIN Result = DOMAIN MOCK_FINANCIAL_DATA
        /\ \A t \in DOMAIN MOCK_FINANCIAL_DATA :
            /\ Result[t].success
            /\ Result[t].ticker = t
            /\ Result[t]
                = analyze_stock(MOCK_FINANCIAL_DATA, Str(t), Result[t].timestamp).outcome.value

C10_Witness ==
    /\ call.op = "analyze_all_stocks"
    /\ Cardinality(DOMAIN Result) = 7
    /\ Result[<<"A", "A", "P", "L">>].data.score = 72500
    /\ Result[PatchedTicker].data.metricsAnalyzed = 0

\* C11: the calls leave the reference table as it is: no step of a call of
\* analyze_stock or analyze_all_stocks, of one caller or of concurrent
\* callers whose steps interleave, changes MOCK_FINANCIAL_DATA; and every
\* result, after any number of earlier and concurrent calls, is the result
\* of a first call made alone on the table, timestamps aside.
C11_Stateless ==
    /\ [][MOCK_FINANCIAL_DATA' = MOCK_FINANCIAL_DATA]_vars
    /\ [](call.op = "analyze_stock" =>
            StripTimes(Result)
                = StripTimes(analyze_stock(BuiltInData, call.arg, 0).outcome.value))
    /\ [](call.op = "analyze_all_stocks" =>
            /\ DOMAIN Result = DOMAIN BuiltInData
            /\ \A t \in DOMAIN Result :
                StripTimes(Result[t])
                    = StripTimes(analyze_stock(BuiltInData, Str(t), 0).outcome.value))

\* a call on WMT returned while the other caller was in the middle of a call
\* on the same record, started earlier
C11_Witness ==
    /\ call.op = "analyze_stock"
    /\ call.caller = "caller2"
    /\ Result.success
    /\ Result.ticker = T_WMT
    /\ Result.timestamp = 2
    /\ threads["caller1"].pc = "analyze"
    /\ threads["caller1"].ticker = T_WMT
    /\ MOCK_FINANCIAL_DATA = BuiltInData

\* a scored metric of the record is not a number
HasMalformedMetric(record) ==
    \E i \in 1..Len(ScoredMetrics) : Get(record, ScoredMetrics[i]) = Malformed

\* C12: a fault inside the analysis (a record with a metric that is not a
\* number, a ticker that is not a string) gives a failure whose error is
\* the internal-error message, a ticker that the table does not have gives a
\* failure whose error is the not-available message, and the two are never
\* the same; a faulty record never gives a successful result, in
\* analyze_all_stocks either.
C12_FaultIsDistinct ==
    /\ IsAnalyzeStock =>
        LET fault ==
                \/ call.arg.t # "str"
                \/ OnPatchedTicker /\ HasMalformedMetric(PatchedRecord)
            not_found ==
                call.arg \in { Str(<<"Z", "Z", "Z">>),
                               Str(Pad(MaxPad) \o <<"z", "z", "z">> \o Pad(MaxPad)) }
        IN  /\ ~Outcome.raised
            /\ fault => ~Result.success
            /\ not_found => ~Result.success
            /\ ~Result.success =>
                /\ Result.error.text = "Internal error during test analysis: " <=> fault
                /\ Result.error.text
                    = "Mock data not available for '{ticker}'. Available tickers: "
                        <=> not_found
    /\ (call.op = "analyze_all_stocks" /\ HasMalformedMetric(PatchedRecord)) =>
        /\ ~Outcome.raised
        /\ ~Result[PatchedTicker].success
        /\ Result[PatchedTicker].error.text = "Internal error during test analysis: "

C12_Witness ==
    /\ call.op = "analyze_all_stocks"
    /\ HasMalformedMetric(PatchedRecord)
    /\ ~Result[PatchedTicker].success
    /\ Result[PatchedTicker].error.error = TypeError
    /\ Result[<<"A", "A", "P", "L">>].success

AnalysisKeys ==
    {"score", "valuation", "rationale", "scoreBreakdown", "metricsAnalyzed", "userFriendlyReport"}

\* C13: a result of analyze_stock has one of two shapes.  A success has
\* exactly the keys success, ticker, timestamp, data_source and data, and
\* data has every field of the ticker's record with the record's value,
\* dataRetrievedAt, and score, valuation, rationale, scoreBreakdown,
\* metricsAnalyzed and userFriendlyReport.  A failure has exactly the keys
\* success, error, timestamp and data_source.
C13_TwoShapes ==
    IsAnalyzeStock =>
        /\ ~Outcome.raised
        /\ Result.success \in BOOLEAN
        /\ Result.success =>
            LET record == MOCK_FINANCIAL_DATA[Result.ticker]
            IN  /\ DOMAIN Result = {"success", "ticker", "timestamp", "data_source", "data"}
                /\ DOMAIN Data = DOMAIN record \cup AnalysisKeys \cup {"dataRetrievedAt"}
                /\ \A field \in DOMAIN record : Data[field] = record[field]
        /\ ~Result.success =>
            DOMAIN Result = {"success", "error", "timestamp", "data_source"}

C13_Witness ==
    /\ Succeeded /\ OnPatchedTicker
    /\ "peRatio" \notin DOMAIN PatchedRecord
    /\ Get(PatchedRecord, "eps") = Num(550)
    /\ "peRatio" \notin DOMAIN Data
    /\ Data.companyName = Str("Walmart Inc.")
    /\ Data.eps = Num(550)
    /\ AnalysisKeys \subseteq DOMAIN Data

\* the report of a non-degenerate successful result, a list of lines
Report == Data.userFriendlyReport
Reported == Succeeded /\ Data.metricsAnalyzed > 0

\* the line of the report that shows the overall score
OverallScoreLine == Report[CHOOSE i \in 1..Len(Report) : Report[i].text = "Overall Score"]

\* C14: the label on the overall score line of the report is the band of
\* the score of the result, taken without truncation: >= 90 Excellent,
\* >= 80 Very Good, >= 70 Good, >= 60 Fair, >= 50 Poor, otherwise Very Poor.
C14_OverallLabel ==
    Reported =>
        /\ Cardinality({i \in 1..Len(Report) : Report[i].text = "Overall Score"}) = 1
        /\ OverallScoreLine.indicator =
            IF Data.score >= 90000 THEN "Excellent"
            ELSE IF Data.score >= 80000 THEN "Very Good"
            ELSE IF Data.score >= 70000 THEN "Good"
            ELSE IF Data.score >= 60000 THEN "Fair"
            ELSE IF Data.score >= 50000 THEN "Poor"
            ELSE "Very Poor"

\* 92.5 is truncated to 92 and is Excellent
C14_Witness ==
    /\ Reported
    /\ Data.score = 92500
    /\ OverallScoreLine.indicator = "Excellent"

\* the metric lines of the report, in the order of the report
MetricLinesOfReport == SelectSeq(Report, LAMBDA line : line.text = "metric")

\* C15: the report has one metric line for each key of scoreBreakdown and
\* no other, in the order P/E, ROE, EV/EBITDA, EPS, and the label of a line
\* is the band of the sub-score of its metric: 100 Excellent, 80 Very Good,
\* 70 Good, 50 Poor, 40 Very Poor.
C15_MetricLines ==
    Reported =>
        LET lines == MetricLinesOfReport
            scored == SelectSeq(<<"peRatio", "roe", "evToEbitda", "eps">>,
                                LAMBDA key : key \in DOMAIN Data.scoreBreakdown)
        IN  /\ Len(lines) = Len(scored)
            /\ \A i \in 1..Len(lines) :
                /\ lines[i].key = scored[i]
                /\ lines[i].name =
                    CASE scored[i] = "peRatio" -> "P/E Ratio"
                      [] scored[i] = "roe" -> "ROE"
                      [] scored[i] = "evToEbitda" -> "EV/EBITDA"
                      [] scored[i] = "eps" -> "EPS"
                /\ Data.scoreBreakdown[scored[i]] \in {100, 80, 70, 50, 40}
                /\ lines[i].indicator =
                    CASE Data.scoreBreakdown[scored[i]] = 100 -> "Excellent"
                      [] Data.scoreBreakdown[scored[i]] = 80 -> "Very Good"
                      [] Data.scoreBreakdown[scored[i]] = 70 -> "Good"
                      [] Data.scoreBreakdown[scored[i]] = 50 -> "Poor"
                      [] Data.scoreBreakdown[scored[i]] = 40 -> "Very Poor"

\* P/E is zero and EV/EBITDA is missing: the report has the ROE line and
\* the EPS line
C15_Witness ==
    /\ Reported /\ OnPatchedTicker
    /\ Get(PatchedRecord, "peRatio") = Num(0)
    /\ "evToEbitda" \notin DOMAIN PatchedRecord
    /\ Len(MetricLinesOfReport) = 2
    /\ MetricLinesOfReport[1].key = "roe"
    /\ MetricLinesOfReport[1].indicator = "Very Good"
    /\ MetricLinesOfReport[2].key = "eps"
    /\ MetricLinesOfReport[2].indicator = "Very Poor"

ValuationLabels ==
    { "Undervalued (Potential Buy)", "Fairly Valued (Hold/Monitor)",
      "Overvalued (Consider Carefully)" }

Recommendations ==
    { "Test Recommendation: Consider for investment",
      "Test Recommendation: Hold or monitor",
      "Test Recommendation: Proceed with caution" }

TextsOfReport(texts) == SelectSeq(Report, LAMBDA line : line.text \in texts)

\* C16: every rendered report has one valuation label and one
\* recommendation line, both those of data.valuation: Undervalued gives
\* "Potential Buy" and "Consider for investment", Fairly valued gives
\* "Hold/Monitor" and "Hold or monitor", Overvalued gives "Consider
\* Carefully" and "Proceed with caution"; the recommendation comes after the
\* label, and the last line of the report is the disclaimer.
C16_LabelAndRecommendation ==
    Reported =>
        /\ Data.valuation \in {"Undervalued", "Fairly valued", "Overvalued"}
        /\ Len(TextsOfReport(ValuationLabels)) = 1
        /\ Len(TextsOfReport(Recommendations)) = 1
        /\ TextsOfReport(ValuationLabels \cup Recommendations) =
            CASE Data.valuation = "Undervalued" ->
                    << [text |-> "Undervalued (Potential Buy)"],
                       [text |-> "Test Recommendation: Consider for investment"] >>
              [] Data.valuation = "Fairly valued" ->
                    << [text |-> "Fairly Valued (Hold/Monitor)"],
                       [text |-> "Test Recommendation: Hold or monitor"] >>
              [] Data.valuation = "Overvalued" ->
                    << [text |-> "Overvalued (Consider Carefully)"],
                       [text |-> "Test Recommendation: Proceed with caution"] >>
        /\ Report[Len(Report)].text
            = "For educational and testing purposes only. Not investment advice."

C16_Witness ==
    /\ Reported
    /\ Data.valuation = "Fairly valued"
    /\ TextsOfReport(Recommendations) = << [text |-> "Test Recommendation: Hold or monitor"] >>
    /\ TextsOfReport(ValuationLabels) = << [text |-> "Fairly Valued (Hold/Monitor)"] >>

\* the record that the call analysed
AnalysedRecord == MOCK_FINANCIAL_DATA[Result.ticker]

\* the rationale but for its metric values: the company name of the record,
\* the score of the result with one decimal place, the count of the result,
\* the valuation of the result in lowercase
RationaleFrame ==
    LET rationale == Data.rationale
    IN  /\ rationale.text = "TEST Financial Analysis"
        /\ rationale.company_name = AnalysedRecord.companyName
        /\ Data.score % 100 = 0
        /\ rationale.score = [prefix |-> "", scaled |-> Data.score \div 100, places |-> 1,
                              suffix |-> ""]
        /\ rationale.metrics_count = Data.metricsAnalyzed
        /\ rationale.valuation =
            CASE Data.valuation = "Undervalued" -> "undervalued"
              [] Data.valuation = "Fairly valued" -> "fairly valued"
              [] Data.valuation = "Overvalued" -> "overvalued"

\* the four metric values of the rationale, "N/A" standing for the metrics
\* that `shown_as_na` holds of
RationaleValues(shown_as_na(_)) ==
    LET rationale == Data.rationale
        shown(key, suffix) ==
            IF shown_as_na(key) THEN Str("N/A")
            ELSE [prefix |-> "", scaled |-> AnalysedRecord[key].v, places |-> 2,
                  suffix |-> suffix]
    IN  /\ rationale.pe_display = shown("peRatio", "")
        /\ rationale.roe_display = shown("roe", "%")
        /\ rationale.ev_display = shown("evToEbitda", "")
        /\ rationale.eps_display = shown("eps", "")

AbsentFrom(record, key) == key \notin DOMAIN record \/ record[key] = None

\* C17 as stated: the rationale gives the company name, the score, the
\* metric count and the valuation in lowercase, and for each of the four
\* metrics its value, "N/A" standing for a metric exactly when the record
\* does not have it.
C17_NaWhenAbsent ==
    Reported =>
        /\ RationaleFrame
        /\ RationaleValues(LAMBDA key : AbsentFrom(AnalysedRecord, key))

\* C17, amended: the rationale is the template over the record and the
\* result: the company name, the score with one decimal place, a metric
\* count equal to metricsAnalyzed, the valuation in lowercase, and for each
\* of the four metrics "N/A" when the record does not have it, has None for
\* it or has zero for it, and its value with two decimal places otherwise,
\* a negative value included.  Nothing else enters the rationale, so two
\* calls on the same record give the same rationale.
C17_Rationale ==
    Reported =>
        /\ RationaleFrame
        /\ RationaleValues(LAMBDA key :
                AbsentFrom(AnalysedRecord, key) \/ AnalysedRecord[key] = Num(0))

C17_Witness ==
    /\ Reported /\ OnPatchedTicker
    /\ Get(PatchedRecord, "peRatio") = Num(0)
    /\ Get(PatchedRecord, "roe") = Num(0 - 100)
    /\ "evToEbitda" \notin DOMAIN PatchedRecord
    /\ Get(PatchedRecord, "eps") = Num(550)
    /\ Data.rationale.pe_display = Str("N/A")
    /\ Data.rationale.roe_display = [prefix |-> "", scaled |-> 0 - 100, places |-> 2,
                                     suffix |-> "%"]
    /\ Data.rationale.ev_display = Str("N/A")
    /\ Data.rationale.metrics_count = 1

\* the text shows value / unit with two decimal places: `scaled` hundredths
\* of the unit, the nearest to the value
NearestHundredth(scaled, value, unit) ==
    LET difference == scaled * (unit \div 100) - value
    IN  2 * difference <= unit \div 100 /\ 2 * difference >= 0 - (unit \div 100)

\* C18: format_market_cap gives "N/A" for no market cap; for a market cap
\* of at least 10^12 the value divided by 10^12 with the suffix "T",
\* otherwise of at least 10^9 the value divided by 10^9 with "B", otherwise
\* of at least 10^6 the value divided by 10^6 with "M", otherwise the value
\* itself; 10^12, 10^9 and 10^6 themselves give 1.00T, 1.00B and 1.00M.
\* (Values are in units of 10^4 dollars: 10^12 is 10^8 units.)
C18_UnitByMagnitude ==
    call.op = "format_market_cap" =>
        LET shown == call.result
            value == call.arg.v
        IN  IF call.arg = None THEN shown = Str("N/A")
            ELSE /\ shown.prefix = "$"
                 /\ IF value >= 100000000
                    THEN /\ shown.suffix = "T" /\ shown.places = 2
                         /\ NearestHundredth(shown.scaled, value, 100000000)
                    ELSE IF value >= 100000
                    THEN /\ shown.suffix = "B" /\ shown.places = 2
                         /\ NearestHundredth(shown.scaled, value, 100000)
                    ELSE IF value >= 100
                    THEN /\ shown.suffix = "M" /\ shown.places = 2
                         /\ NearestHundredth(shown.scaled, value, 100)
                    ELSE /\ shown.suffix = "" /\ shown.places = 0
                         /\ shown.scaled = value * 10000
                 /\ value = 100000000 => (shown.suffix = "T" /\ shown.scaled = 100)
                 /\ value = 100000 => (shown.suffix = "B" /\ shown.scaled = 100)
                 /\ value = 100 => (shown.suffix = "M" /\ shown.scaled = 100)

\* 10^9 dollars is shown as $1.00B
C18_Witness ==
    /\ call.op = "format_market_cap"
    /\ call.arg = Num(100000)
    /\ call.result = [prefix |-> "$", scaled |-> 100, places |-> 2, suffix |-> "B"]

\* the rationale shows a value for the metric, not "N/A"
ShownInRationale(key) ==
    LET rationale == Data.rationale
        display == CASE key = "peRatio" -> rationale.pe_display
                     [] key = "roe" -> rationale.roe_display
                     [] key = "evToEbitda" -> rationale.ev_display
                     [] key = "eps" -> rationale.eps_display
    IN  display # Str("N/A")

\* the report has a line for the metric
HasReportLine(key) ==
    \E i \in 1..Len(MetricLinesOfReport) : MetricLinesOfReport[i].key = key

\* C19: scoring and reporting agree on which metrics are valid: in every
\* non-degenerate result each of the four metrics is shown with a value in
\* the rationale, and has a line in the report, exactly when it was scored
\* (it has a key in scoreBreakdown, which metricsAnalyzed counts); so a
\* metric that is zero or negative is left out by all three.
C19_SameValidity ==
    Reported =>
        /\ Data.metricsAnalyzed = Cardinality(DOMAIN Data.scoreBreakdown)
        /\ \A i \in 1..Len(ScoredMetrics) :
            LET key == ScoredMetrics[i]
                counted == key \in DOMAIN Data.scoreBreakdown
            IN  /\ ShownInRationale(key) <=> counted
                /\ HasReportLine(key) <=> counted

\* C20: a result is Undervalued only with four valid metrics and Fairly
\* valued only with at least three; with one or two valid metrics it is
\* Overvalued; with four valid metrics the score is at least 45.
C20_CoverageCeiling ==
    Reported =>
        /\ Data.valuation = "Undervalued" => Data.metricsAnalyzed = 4
        /\ Data.valuation = "Fairly valued" => Data.metricsAnalyzed >= 3
        /\ Data.metricsAnalyzed \in {1, 2} => Data.valuation = "Overvalued"
        /\ Data.metricsAnalyzed = 4 => Data.score >= 45000

\* three metrics, each in its best band: 75.0, Fairly valued
C20_Witness ==
    /\ Reported
    /\ Data.metricsAnalyzed = 3
    /\ Data.score = 75000
    /\ Data.valuation = "Fairly valued"

\* the ticker is a string of whitespace characters only, the empty string
\* included
IsBlank(ticker) ==
    ticker.t = "str" /\ \A i \in 1..Len(ticker.s) : ticker.s[i] \in {" ", "\t", "\n", "\r"}

\* C21: analyze_stock on a ticker that is empty or made of whitespace only
\* returns success false with the error "Ticker symbol is required" and
\* nothing else in it: not the message of an unknown ticker, no list of
\* available tickers.
C21_TickerRequired ==
    (IsAnalyzeStock /\ IsBlank(call.arg)) =>
        /\ ~Outcome.raised
        /\ ~Result.success
        /\ Result.error = [text |-> "Ticker symbol is required"]
        /\ DOMAIN Result = {"success", "error", "timestamp", "data_source"}

C21_Witness ==
    /\ IsAnalyzeStock
    /\ call.arg = Str(Pad(MaxPad))
    /\ MaxPad > 0
    /\ ~Result.success
    /\ Result.error.text = "Ticker symbol is required"

(***************************************************************************)
(* The command handlers of the Discord bot.  A handler is a coroutine: it  *)
(* runs alone from one await to the next, and other handlers run while it  *)
(* awaits.  The conversation thread of a bridge runs beside the handlers;  *)
(* here it is followed only through the two flags of its bridge.  The      *)
(* monitor's count of passes is not kept: passes that find nothing change  *)
(* no other variable, so the loop may reach max_timeout after any pass.    *)
(***************************************************************************)
\* number of !analyze commands that get past the active-conversation test
MaxAnalyze == 2

DiscordAutoGenBridge ==
    [conversation_active |-> FALSE, waiting_for_user |-> FALSE, thread |-> "none"]

Registered(b) == conversation_key \in DOMAIN b.active_conversations
RegisteredBridge(b) == b.bridges[b.active_conversations[conversation_key]]
Register(b, i) == [b EXCEPT !.active_conversations = [k \in {conversation_key} |-> i]]
Unregister(b) == [b EXCEPT !.active_conversations = [k \in {} |-> 0]]

BotInit ==
    /\ MOCK_FINANCIAL_DATA = BuiltInData
    /\ clock = 0
    /\ call = NoCall
    /\ threads = NoThreads
    /\ bot = NoBot
    /\ conversation = NoConversation

\* analyze_command up to its first await
AnalyzeCommand ==
    IF Registered(bot) /\ RegisteredBridge(bot).conversation_active
    THEN /\ call' = [op |-> "analyze", outcome |-> "rejected"]
         /\ UNCHANGED <<MOCK_FINANCIAL_DATA, clock, threads, bot, conversation>>
    ELSE /\ Len(bot.bridges) < MaxAnalyze
         /\ LET i == Len(bot.bridges) + 1
                made == [bot EXCEPT !.bridges = Append(@, DiscordAutoGenBridge),
                                    !.handlers = Append(@, "starting")]
            IN  bot' = Register(made, i)
         /\ call' = [op |-> "analyze", outcome |-> "registered"]
         /\ UNCHANGED <<MOCK_FINANCIAL_DATA, clock, threads, conversation>>

\* start_conversation as analyze_command calls it once its first message is
\* sent: it sets the flag and starts the thread, or the set-up raises and
\* the bridge is left as it was made
StartConversation(i) ==
    /\ bot.handlers[i] = "starting"
    /\ \E started \in BOOLEAN :
        bot' = [bot EXCEPT !.handlers[i] = "monitoring",
                           !.bridges[i].conversation_active = started,
                           !.bridges[i].thread = IF started THEN "running" ELSE "none"]
    /\ call' = [op |-> "start_conversation", bridge |-> i]
    /\ UNCHANGED <<MOCK_FINANCIAL_DATA, clock, threads, conversation>>

\* the clean-up of monitor_conversation after a break of its loop
CleanUp(b, i) ==
    IF Registered(b) /\ ~b.bridges[i].conversation_active THEN Unregister(b) ELSE b

\* one pass of the loop of monitor_conversation
MonitorPass(i) ==
    /\ bot.handlers[i] = "monitoring"
    /\ \/ /\ bot.bridges[i].waiting_for_user
          /\ bot' = [bot EXCEPT !.handlers[i] = "notifying"]
       \/ /\ ~bot.bridges[i].waiting_for_user
          /\ ~bot.bridges[i].conversation_active
          /\ bot' = [CleanUp(bot, i) EXCEPT !.handlers[i] = "done"]
       \/ /\ ~bot.bridges[i].waiting_for_user
          /\ bot.bridges[i].conversation_active
          /\ bot' = [bot EXCEPT !.handlers[i] = IF Registered(bot) THEN "timed_out" ELSE "done"]
    /\ call' = [op |-> "monitor_conversation", bridge |-> i]
    /\ UNCHANGED <<MOCK_FINANCIAL_DATA, clock, threads, conversation>>

\* the monitor after it has sent "Waiting for your input"
MonitorNotified(i) ==
    /\ bot.handlers[i] = "notifying"
    /\ bot' = [CleanUp(bot, i) EXCEPT !.handlers[i] = "done"]
    /\ call' = [op |-> "monitor_conversation", bridge |-> i]
    /\ UNCHANGED <<MOCK_FINANCIAL_DATA, clock, threads, conversation>>

\* the monitor after it has sent "Conversation timed out": del raises
\* KeyError when the entry has gone meanwhile
MonitorTimedOut(i) ==
    /\ bot.handlers[i] = "timed_out"
    /\ LET stopped == [bot EXCEPT !.bridges[i].conversation_active = FALSE,
                                  !.handlers[i] = "done"]
       IN  /\ bot' = IF Registered(bot) THEN Unregister(stopped) ELSE stopped
           /\ call' = [op |-> "monitor_conversation", bridge |-> i,
                       outcome |-> IF Registered(bot) THEN "returned" ELSE "KeyError"]
    /\ UNCHANGED <<MOCK_FINANCIAL_DATA, clock, threads, conversation>>

StopCommand ==
    /\ IF Registered(bot)
       THEN LET i == bot.active_conversations[conversation_key]
            IN  bot' = Unregister([bot EXCEPT !.bridges[i].conversation_active = FALSE])
       ELSE UNCHANGED bot
    /\ call' = [op |-> "stop", outcome |-> IF Registered(bot) THEN "stopped" ELSE "nothing to stop"]
    /\ UNCHANGED <<MOCK_FINANCIAL_DATA, clock, threads, conversation>>

\* the conversation thread of bridge i enters get_human_input
ThreadAsks(i) ==
    /\ bot.bridges[i].thread = "running"
    /\ ~bot.bridges[i].waiting_for_user
    /\ bot' = [bot EXCEPT !.bridges[i].waiting_for_user = TRUE]
    /\ UNCHANGED <<MOCK_FINANCIAL_DATA, clock, call, threads, conversation>>

\* ... and leaves it with an input or after the wait has expired
ThreadResumes(i) ==
    /\ bot.bridges[i].thread = "running"
    /\ bot.bridges[i].waiting_for_user
    /\ bot' = [bot EXCEPT !.bridges[i].waiting_for_user = FALSE]
    /\ UNCHANGED <<MOCK_FINANCIAL_DATA, clock, call, threads, conversation>>

\* the finally clause of run_conversation
ThreadEnds(i) ==
    /\ bot.bridges[i].thread = "running"
    /\ bot' = [bot EXCEPT !.bridges[i].conversation_active = FALSE,
                          !.bridges[i].thread = "ended"]
    /\ UNCHANGED <<MOCK_FINANCIAL_DATA, clock, call, threads, conversation>>

BotNext ==
    \/ AnalyzeCommand
    \/ StopCommand
    \/ \E i \in 1..Len(bot.bridges) :
        \/ StartConversation(i)
        \/ MonitorPass(i)
        \/ MonitorNotified(i)
        \/ MonitorTimedOut(i)
        \/ ThreadAsks(i)
        \/ ThreadResumes(i)
        \/ ThreadEnds(i)

BotSpec == BotInit /\ [][BotNext]_vars

ActiveBridges == {i \in 1..Len(bot.bridges) : bot.bridges[i].conversation_active}

\* C22: a (channel, user) pair never has two conversations active at the
\* same time, whatever the interleaving of the handlers at their awaits
C22_OneConversation == Cardinality(ActiveBridges) <= 1

\* handler i removes the registry entry in this step
MonitorDeletes(i) ==
    /\ bot.handlers[i] \in {"monitoring", "notifying", "timed_out"}
    /\ bot'.handlers = [bot.handlers EXCEPT ![i] = "done"]
    /\ Registered(bot)
    /\ ~Registered(bot')

\* C23: the monitor of a conversation removes no registry entry but that of
\* the conversation it monitored: the entry of a bridge registered by a
\* later !analyze is never deleted by the monitor of an earlier conversation
C23_MonitorDeletesOwnEntry ==
    [][\A i \in 1..Len(bot.bridges) :
         MonitorDeletes(i) => bot.active_conversations[conversation_key] = i]_vars

(***************************************************************************)
(* One conversation of the bot, from the return of start_conversation on:  *)
(* the conversation thread (run_conversation, with get_human_input as the  *)
(* chat calls it), the monitor of analyze_command, and the !continue and   *)
(* !stop commands.  The thread is a real thread: it runs between any two   *)
(* steps of the handlers.  What the agents say is not modelled; a chat is  *)
(* a run of messages and of requests for human input that ends or raises.  *)
(* The locals of get_human_input are kept while it runs and are reset when *)
(* it returns; the value it returned is kept until the chat's next step.   *)
(* A pass of its polling loop that finds no input changes nothing but the  *)
(* count of passes.  HumanInputSpec follows the count; ConversationSpec    *)
(* does not (`counted` is false): there a pass that finds nothing stands   *)
(* for all the passes up to max_wait.                                      *)
(***************************************************************************)
\* messages sent and human inputs requested by the chats of one behaviour
MaxTurns == 2
\* !continue commands accepted in one behaviour
MaxInputs == 1

max_wait == 600

TERMINATE == <<"T", "E", "R", "M", "I", "N", "A", "T", "E">>
AutoReplyWords == {<<>>, <<"e", "n", "t", "e", "r">>, <<"c", "o", "n", "t", "i", "n", "u", "e">>,
                   <<"a", "u", "t", "o">>}
ExitWords == {<<"e", "x", "i", "t">>, <<"q", "u", "i", "t">>, <<"s", "t", "o", "p">>}

\* what the user types after !continue
UserInputs ==
    {<<>>, <<"E", "n", "t", "e", "r", " ">>, <<" ", "Q", "u", "i", "t">>, <<"w", "h", "y", "?">>}

\* get_human_input on an input it has read: the message it puts, the flag
\* it leaves and the value it returns
human_reply_without_strip(user_input) ==
    LET word == lower_ticker(user_input)
    IN  IF word \in AutoReplyWords
        THEN [put |-> <<"auto_reply">>, active |-> TRUE, value |-> <<>>]
        ELSE IF word \in ExitWords
        THEN [put |-> <<"stopping">>, active |-> FALSE, value |-> TERMINATE]
        ELSE [put |-> <<>>, active |-> TRUE, value |-> user_input]

human_reply(user_input) ==
    LET word == lower_ticker(strip(user_input))
    IN  IF word \in AutoReplyWords
        THEN [put |-> <<"auto_reply">>, active |-> TRUE, value |-> <<>>]
        ELSE IF word \in ExitWords
        THEN [put |-> <<"stopping">>, active |-> FALSE, value |-> TERMINATE]
        ELSE [put |-> <<>>, active |-> TRUE, value |-> user_input]

\* response_queue.put by the conversation thread
ThreadPut(c, message) ==
    [c EXCEPT !.response_queue = Append(@, message), !.last_put = message]

NoReturn == [because |-> "none"]

\* the bridge when start_conversation has returned and the monitor begins
Started(counted) ==
    /\ MOCK_FINANCIAL_DATA = BuiltInData
    /\ clock = 0
    /\ call = NoCall
    /\ threads = NoThreads
    /\ bot = NoBot
    /\ conversation =
           [counted |-> counted,
            conversation_active |-> TRUE, waiting_for_user |-> FALSE,
            response_queue |-> <<>>, user_input_queue |-> <<>>,
            registered |-> TRUE,
            pc |-> "chat", followup |-> FALSE, timeout_counter |-> 0,
            user_input |-> <<>>, returned |-> NoReturn, turns |-> 0,
            last_put |-> "none", completed |-> 0,
            monitor |-> "draining",
            inputs |-> 0, continuing |-> 0]

Others == <<MOCK_FINANCIAL_DATA, clock, call, threads, bot>>

\* an agent of the chat sends a message (wrapped_send)
AgentSends ==
    /\ conversation.pc = "chat"
    /\ conversation.turns < MaxTurns
    /\ conversation' = [ThreadPut(conversation, "agent") EXCEPT
                            !.turns = @ + 1, !.returned = NoReturn]
    /\ UNCHANGED Others

\* the chat asks for human input: get_human_input puts the prompt ...
AsksHuman ==
    /\ conversation.pc = "chat"
    /\ conversation.turns < MaxTurns
    /\ conversation' = [ThreadPut(conversation, "prompt") EXCEPT
                            !.turns = @ + 1, !.pc = "prompted", !.returned = NoReturn]
    /\ UNCHANGED Others

\* ... and sets waiting_for_user
SetsWaiting ==
    /\ conversation.pc = "prompted"
    /\ conversation' = [conversation EXCEPT !.waiting_for_user = TRUE, !.pc = "polling",
                                            !.timeout_counter = 0]
    /\ UNCHANGED Others

\* one pass of the polling loop, or the code after it when the loop ends
Polls ==
    /\ conversation.pc = "polling"
    /\ conversation' =
         IF /\ conversation.waiting_for_user
            /\ conversation.conversation_active
            /\ conversation.timeout_counter < max_wait
         THEN IF conversation.user_input_queue # <<>>
              THEN [conversation EXCEPT !.user_input = Head(conversation.user_input_queue),
                                        !.user_input_queue = Tail(@),
                                        !.waiting_for_user = FALSE,
                                        !.pc = "replying"]
              ELSE [conversation EXCEPT
                        !.timeout_counter = IF conversation.counted THEN @ + 1 ELSE max_wait]
         ELSE IF conversation.timeout_counter >= max_wait
              THEN [ThreadPut(conversation, "expired") EXCEPT
                        !.waiting_for_user = FALSE, !.pc = "chat", !.timeout_counter = 0,
                        !.returned = [because |-> "expired", value |-> <<>>]]
              ELSE [conversation EXCEPT
                        !.pc = "chat", !.timeout_counter = 0,
                        !.returned = [because |-> "stopped", value |-> <<>>]]
    /\ UNCHANGED Others

\* get_human_input returns on the input it has read
Replies ==
    /\ conversation.pc = "replying"
    /\ LET reply == human_reply(conversation.user_input)
           told == IF reply.put = <<>> THEN conversation
                   ELSE ThreadPut(conversation, reply.put[1])
       IN  conversation' =
             [told EXCEPT !.conversation_active = @ /\ reply.active,
                          !.pc = "chat", !.timeout_counter = 0, !.user_input = <<>>,
                          !.returned = [because |-> "input", value |-> reply.value,
                                        input |-> conversation.user_input]]
    /\ UNCHANGED Others

\* initiate_chat returns
ChatEnds ==
    /\ conversation.pc = "chat"
    /\ conversation' = [conversation EXCEPT !.pc = "loop", !.returned = NoReturn]
    /\ UNCHANGED Others

\* initiate_chat raises: the first chat leaves the try block, a follow-up
\* chat reports the error and the loop goes on
ChatRaises ==
    /\ conversation.pc = "chat"
    /\ conversation' =
         IF conversation.followup
         THEN [ThreadPut(conversation, "followup_error") EXCEPT
                    !.pc = "loop", !.returned = NoReturn]
         ELSE [ThreadPut(conversation, "error") EXCEPT
                    !.pc = "finally", !.returned = NoReturn]
    /\ UNCHANGED Others

\* one pass of the follow-up loop of run_conversation
FollowUp ==
    /\ conversation.pc = "loop"
    /\ conversation' =
         IF ~conversation.conversation_active
         THEN [conversation EXCEPT !.pc = "finally"]
         ELSE IF conversation.waiting_for_user \/ conversation.user_input_queue = <<>>
         THEN conversation
         ELSE LET user_input == Head(conversation.user_input_queue)
                  read == [conversation EXCEPT !.user_input_queue = Tail(@)]
              IN  IF lower_ticker(strip(user_input)) \in ExitWords
                  THEN [read EXCEPT !.pc = "finally"]
                  ELSE [read EXCEPT !.pc = "chat", !.followup = TRUE]
    /\ UNCHANGED Others

\* the finally clause of run_conversation clears the flag ...
run_conversation_finally_keeps_flag(c) == [c EXCEPT !.pc = "completing"]

run_conversation_finally(c) ==
    [c EXCEPT !.conversation_active = FALSE, !.pc = "completing"]

Finally ==
    /\ conversation.pc = "finally"
    /\ conversation' = run_conversation_finally(conversation)
    /\ UNCHANGED Others

\* ... and puts the closing message; the thread is over
Completes ==
    /\ conversation.pc = "completing"
    /\ conversation' = [ThreadPut(conversation, "completed") EXCEPT
                            !.completed = @ + 1, !.pc = "done"]
    /\ UNCHANGED Others

\* monitor_conversation: get_responses
MonitorDrains ==
    /\ conversation.monitor = "draining"
    /\ conversation' = [conversation EXCEPT
                            !.response_queue = <<>>,
                            !.monitor = IF conversation.response_queue = <<>>
                                        THEN "testing" ELSE "sending"]
    /\ UNCHANGED Others

\* ... the responses are sent to the channel
MonitorSends ==
    /\ conversation.monitor = "sending"
    /\ conversation' = [conversation EXCEPT !.monitor = "testing"]
    /\ UNCHANGED Others

\* ... the two flags are tested: the monitor tells the user that input is
\* awaited, or cleans up and ends, or sleeps; max_timeout may be reached
\* after any sleep
MonitorTests ==
    /\ conversation.monitor = "testing"
    /\ \/ /\ conversation.waiting_for_user
          /\ conversation' = [conversation EXCEPT !.monitor = "notified"]
       \/ /\ ~conversation.waiting_for_user
          /\ ~conversation.conversation_active
          /\ conversation' = [conversation EXCEPT !.monitor = "done",
                                                  !.registered = @ /\ conversation.conversation_active]
       \/ /\ ~conversation.waiting_for_user
          /\ conversation.conversation_active
          /\ \E next \in {"draining", IF conversation.registered THEN "timed_out" ELSE "done"} :
                conversation' = [conversation EXCEPT !.monitor = next]
    /\ UNCHANGED Others

\* the monitor after its notice "Waiting for your input"
MonitorLeaves ==
    /\ conversation.monitor = "notified"
    /\ conversation' = [conversation EXCEPT !.monitor = "done",
                                            !.registered = @ /\ conversation.conversation_active]
    /\ UNCHANGED Others

\* the monitor after its notice "Conversation timed out"
MonitorGivesUp ==
    /\ conversation.monitor = "timed_out"
    /\ conversation' = [conversation EXCEPT !.monitor = "done",
                                            !.conversation_active = FALSE,
                                            !.registered = FALSE]
    /\ UNCHANGED Others

\* continue_command up to its sleep: the input is queued
ContinueCommand ==
    /\ conversation.registered
    /\ conversation.conversation_active
    /\ conversation.inputs < MaxInputs
    /\ \E user_input \in UserInputs :
        conversation' = [conversation EXCEPT !.user_input_queue = Append(@, user_input),
                                             !.inputs = @ + 1,
                                             !.continuing = @ + 1]
    /\ UNCHANGED Others

\* continue_command after its sleep: get_responses, and the responses sent
ContinueDrains ==
    /\ conversation.continuing > 0
    /\ conversation' = [conversation EXCEPT !.response_queue = <<>>, !.continuing = @ - 1]
    /\ UNCHANGED Others

\* stop_command
StopsConversation ==
    /\ conversation.registered
    /\ conversation' = [conversation EXCEPT !.conversation_active = FALSE,
                                            !.registered = FALSE]
    /\ UNCHANGED Others

ConversationNext ==
    \/ AgentSends \/ AsksHuman \/ SetsWaiting \/ Polls \/ Replies
    \/ ChatEnds \/ ChatRaises \/ FollowUp \/ Finally \/ Completes
    \/ MonitorDrains \/ MonitorSends \/ MonitorTests \/ MonitorLeaves \/ MonitorGivesUp
    \/ ContinueCommand \/ ContinueDrains \/ StopsConversation

ConversationSpec == Started(FALSE) /\ [][ConversationNext]_vars

(***************************************************************************)
(* get_human_input with its count of passes, beside the commands that put  *)
(* an input on its queue or stop the conversation.                         *)
(***************************************************************************)
HumanInputSpec ==
    /\ Started(TRUE)
    /\ [][\/ AsksHuman \/ SetsWaiting \/ Polls \/ Replies
          \/ ContinueCommand \/ ContinueDrains \/ StopsConversation]_vars

\* C24: get_human_input always returns, after at most max_wait (600) passes
\* of its polling loop: no step of it blocks; on an input it returns "" for
\* an empty input or enter/continue/auto, "TERMINATE" with the conversation
\* no longer active for exit/quit/stop, and the user's text otherwise; it
\* returns "" when the wait expires or the conversation is stopped
C24_AlwaysReturns ==
    /\ conversation.timeout_counter <= max_wait
    /\ conversation.pc \in {"prompted", "polling", "replying"}
          => ENABLED (SetsWaiting \/ Polls \/ Replies)
    /\ conversation.returned.because = "input" =>
          LET word == lower_ticker(strip(conversation.returned.input))
          IN  /\ word \in AutoReplyWords => conversation.returned.value = <<>>
              /\ word \in ExitWords =>
                    /\ conversation.returned.value = TERMINATE
                    /\ ~conversation.conversation_active
              /\ word \notin AutoReplyWords \cup ExitWords =>
                    conversation.returned.value = conversation.returned.input
    /\ conversation.returned.because \in {"expired", "stopped"} =>
          conversation.returned.value = <<>>

\* a wait has expired after max_wait passes while the conversation went
\* on, with one !continue accepted before
C24_Witness ==
    /\ conversation.returned = [because |-> "expired", value |-> <<>>]
    /\ conversation.conversation_active
    /\ conversation.inputs = 1

\* C25: waiting_for_user is true only while the agent is blocked inside
\* get_human_input; whatever path it returns by, the flag is false after
C25_WaitingOnlyInside ==
    conversation.waiting_for_user => conversation.pc = "polling"

\* C26: when the monitor tells the user "Waiting for your input", no prompt
\* is still undelivered in the response queue
C26_PromptBeforeNotice ==
    [][conversation.monitor # "notified" /\ conversation'.monitor = "notified"
          => \A i \in 1..Len(conversation.response_queue) :
                conversation.response_queue[i] # "prompt"]_vars

\* C27: however the conversation thread ends, conversation_active is false
\* then, and the thread has put exactly one "conversation completed"
\* message, as the last message it puts on the response queue
C27_ThreadEnd ==
    IF conversation.pc = "done"
    THEN /\ ~conversation.conversation_active
         /\ conversation.completed = 1
         /\ conversation.last_put = "completed"
    ELSE conversation.completed = 0

\* the thread has ended after !stop reached it while it waited for input
C27_Witness ==
    /\ conversation.pc = "done"
    /\ conversation.waiting_for_user
    /\ ~conversation.registered
    /\ conversation.last_put = "completed"

(***************************************************************************)
(* Two helpers of the agent front ends, each a function of its argument:   *)
(* extract_stock_symbol of crw/crew_2_invoke_lambda.py and the mock        *)
(* response of autogen/financial_autogen.py.  Texts are sequences of       *)
(* characters.                                                             *)
(***************************************************************************)
\* company_mappings, in the order of the dict
company_mappings ==
    <<<<<<"a", "p", "p", "l", "e">>, <<"A", "A", "P", "L">>>>,
      <<<<"m", "i", "c", "r", "o", "s", "o", "f", "t">>, <<"M", "S", "F", "T">>>>,
      <<<<"g", "o", "o", "g", "l", "e">>, <<"G", "O", "O", "G", "L">>>>,
      <<<<"a", "l", "p", "h", "a", "b", "e", "t">>, <<"G", "O", "O", "G", "L">>>>,
      <<<<"a", "m", "a", "z", "o", "n">>, <<"A", "M", "Z", "N">>>>,
      <<<<"t", "e", "s", "l", "a">>, <<"T", "S", "L", "A">>>>,
      <<<<"f", "a", "c", "e", "b", "o", "o", "k">>, <<"M", "E", "T", "A">>>>,
      <<<<"m", "e", "t", "a">>, <<"M", "E", "T", "A">>>>,
      <<<<"n", "e", "t", "f", "l", "i", "x">>, <<"N", "F", "L", "X">>>>,
      <<<<"n", "v", "i", "d", "i", "a">>, <<"N", "V", "D", "A">>>>,
      <<<<"s", "a", "m", "s", "u", "n", "g">>, <<"S", "S", "N", "L", "F">>>>,
      <<<<"t", "o", "y", "o", "t", "a">>, <<"T", "M">>>>,
      <<<<"k", "a", "s", "i", "k", "o", "r", "n">>, <<"K", "B", "A", "N", "K">>>>,
      <<<<"k", "a", "s", "i", "k", "o", "r", "n", "b", "a", "n", "k">>, <<"K", "B", "A", "N", "K">>>>,
      <<<<"k", "b", "a", "n", "k">>, <<"K", "B", "A", "N", "K">>>>,
      <<<<"p", "t", "t">>, <<"P", "T", "T">>>>,
      <<<<"t", "r", "u", "e">>, <<"T", "R", "U", "E">>>>,
      <<<<"c", "p">>, <<"C", "P">>>>,
      <<<<"c", "p", "a", "l", "l">>, <<"C", "P", "A", "L", "L">>>>>>

\* the tickers that method 3 accepts
KnownTickers ==
    {<<"A", "A", "P", "L">>,
     <<"M", "S", "F", "T">>,
     <<"G", "O", "O", "G", "L">>,
     <<"A", "M", "Z", "N">>,
     <<"T", "S", "L", "A">>,
     <<"M", "E", "T", "A">>,
     <<"N", "F", "L", "X">>,
     <<"N", "V", "D", "A">>,
     <<"K", "B", "A", "N", "K">>,
     <<"P", "T", "T">>}

\* \w of a regular expression, for ASCII text
WordCharacters ==
    DOMAIN ToLower \cup DOMAIN ToUpper \cup {"0", "1", "2", "3", "4", "5", "6", "7", "8", "9", "_"}

\* the maximal runs of word characters of a text, in order; `run` is the
\* run being read
RECURSIVE WordRuns(_, _)
WordRuns(text, run) ==
    IF text = <<>> THEN (IF run = <<>> THEN <<>> ELSE <<run>>)
    ELSE IF Head(text) \in WordCharacters THEN WordRuns(Tail(text), Append(run, Head(text)))
    ELSE (IF run = <<>> THEN <<>> ELSE <<run>>) \o WordRuns(Tail(text), <<>>)

\* re.findall(r'\b[...]{2,5}\b', text) for a class of letters: a match
\* begins and ends at a word boundary, so it is a whole run of 2 to 5
\* characters, all of the class
FindAll(class, text) ==
    SelectSeq(WordRuns(text, <<>>),
              LAMBDA w : Len(w) \in 2..5 /\ \A i \in 1..Len(w) : w[i] \in class)

\* sub in text
Contains(text, sub) ==
    \E i \in 0..(Len(text) - Len(sub)) : SubSeq(text, i + 1, i + Len(sub)) = sub

\* [A-Z] is DOMAIN ToLower, the upper-case letters
extract_stock_symbol(user_input) ==
    LET cleaned_input == strip(lower_ticker(user_input))
        tickers == FindAll(DOMAIN ToLower, upper(user_input))
        named == SelectSeq(company_mappings, LAMBDA m : Contains(cleaned_input, m[1]))
        potential_tickers ==
            SelectSeq(FindAll(DOMAIN ToLower \cup DOMAIN ToUpper, cleaned_input),
                      LAMBDA w : upper(w) \in KnownTickers)
    IN  IF tickers # <<>> THEN <<Str(tickers[1]), "high">>
        ELSE IF named # <<>> THEN <<Str(named[1][2]), "high">>
        ELSE IF potential_tickers # <<>> THEN <<Str(upper(potential_tickers[1])), "medium">>
        ELSE <<None, "none">>

\* what the user types: a company name with its first letter in upper
\* case, a ticker in either case, a word that is neither, or nothing, alone
\* or inside a sentence
UserTexts ==
    LET names == {[i \in 1..Len(m[1]) |-> IF i = 1 THEN UpperChar(m[1][i]) ELSE m[1][i]] :
                    m \in {company_mappings[k] : k \in 1..Len(company_mappings)}}
        subjects == names \cup KnownTickers \cup {lower_ticker(t) : t \in KnownTickers}
                    \cup {<<"i", "t">>, <<"m", "a", "r", "k", "e", "t", "s">>, <<>>}
        openings == {<<>>, <<"A", "n", "a", "l", "y", "z", "e", " ">>,
                     <<"S", "h", "o", "u", "l", "d", " ", "I", " ", "i", "n", "v", "e", "s", "t", " ", "i", "n", " ">>}
        endings == {<<>>, <<" ", "s", "t", "o", "c", "k">>, <<"?">>}
    IN  {a \o x \o z : a \in openings, x \in subjects, z \in endings}

\* _generate_mock_response: technicalData of the response body
_generate_mock_response(ticker) ==
    LET ticker_upper == upper(IF IsNone(ticker) \/ ticker.s = <<>>
                              THEN <<"M", "O", "C", "K">> ELSE ticker.s)
    IN  [success |-> TRUE,
         ticker |-> Str(ticker_upper),
         data |-> [companyName |-> Str(ticker_upper),
                   peRatio |-> Num(1870), roe |-> Num(1630),
                   evToEbitda |-> Num(1190), eps |-> Num(540),
                   marketCap |-> Num(250 * Billion),
                   sector |-> Str("Technology"), industry |-> Str("Software"),
                   score |-> 82500,
                   valuation |-> "Fairly valued",
                   scoreBreakdown |-> [peRatio |-> 80, roe |-> 80, evToEbitda |-> 70,
                                       eps |-> 70],
                   metricsAnalyzed |-> 4]]

FrontEndInit ==
    /\ MOCK_FINANCIAL_DATA = BuiltInData
    /\ clock = 0
    /\ call = NoCall
    /\ threads = NoThreads
    /\ bot = NoBot
    /\ conversation = NoConversation

ExtractStockSymbol ==
    /\ call.op \in {"none", "_generate_mock_response"}
    /\ \E user_input \in UserTexts :
        call' = [op |-> "extract_stock_symbol", arg |-> user_input,
                 outcome |-> extract_stock_symbol(user_input)]
    /\ UNCHANGED <<MOCK_FINANCIAL_DATA, clock, threads, bot, conversation>>

\* invoke_lambda_function on the symbol found, or on no symbol
GenerateMockResponse ==
    /\ call.op \in {"none", "extract_stock_symbol"}
    /\ LET ticker == IF call.op = "none" THEN Str(<<>>) ELSE call.outcome[1]
       IN  call' = [op |-> "_generate_mock_response", arg |-> ticker,
                    outcome |-> _generate_mock_response(ticker)]
    /\ UNCHANGED <<MOCK_FINANCIAL_DATA, clock, threads, bot, conversation>>

FrontEndSpec == FrontEndInit /\ [][ExtractStockSymbol \/ GenerateMockResponse]_vars

\* C28: extract_stock_symbol understands company names and ticker symbols:
\* for an input that names a company of its mapping it returns the ticker
\* of a company named, with confidence "high"; for an input that is a bare
\* ticker it returns that ticker; it returns (None, "none") only when the
\* input has neither
C28_NamesAndTickers ==
    call.op = "extract_stock_symbol" =>
        LET cleaned == strip(lower_ticker(call.arg))
            names == {i \in 1..Len(company_mappings) : Contains(cleaned, company_mappings[i][1])}
        IN  /\ names # {} =>
                  \E i \in names : call.outcome = <<Str(company_mappings[i][2]), "high">>
            /\ upper(cleaned) \in KnownTickers => call.outcome[1] = Str(upper(cleaned))
            /\ call.outcome = <<None, "none">> =>
                  names = {} /\ \A t \in KnownTickers : ~Contains(upper(cleaned), t)

\* C29: the mock response follows the engine's rules: each scoreBreakdown
\* entry is the band score of the metric value the response carries, the
\* score is 0.25 times the sum of the scoreBreakdown, and the valuation is
\* the category of the score under the 80/60 thresholds
C29_MockMatchesEngine ==
    call.op = "_generate_mock_response" =>
        LET data == call.outcome.data
            bands == data.scoreBreakdown
        IN  /\ bands.peRatio = score_pe_ratio(data.peRatio.v)
            /\ bands.roe = score_roe(data.roe.v)
            /\ bands.evToEbitda = score_ev_ebitda(data.evToEbitda.v)
            /\ bands.eps = score_eps(data.eps.v)
            /\ data.score = PE_RATIO * bands.peRatio + ROE * bands.roe
                            + EV_EBITDA * bands.evToEbitda + EPS * bands.eps
            /\ data.valuation = _determine_valuation_category(data.score)

(***************************************************************************)
(* compare_stocks: the ranking of the repository's tickers by score, on    *)
(* well-formed repositories and on repositories with a malformed metric.   *)
(***************************************************************************)
\* list.sort(key=score) without reverse=True: the place of entry i
sort_place_ascending(stock_scores, i) ==
    1 + Cardinality({j \in 1..Len(stock_scores) :
                        \/ stock_scores[j].score < stock_scores[i].score
                        \/ stock_scores[j].score = stock_scores[i].score /\ j < i})

\* list.sort(key=score, reverse=True): the place of entry i of the list in
\* the sorted list.  The sort is stable: an entry stands behind the entries
\* of a higher score and behind the earlier entries of its own score.
sort_place(stock_scores, i) ==
    1 + Cardinality({j \in 1..Len(stock_scores) :
                        \/ stock_scores[j].score > stock_scores[i].score
                        \/ stock_scores[j].score = stock_scores[i].score /\ j < i})

SortByScore(stock_scores) ==
    [place \in 1..Len(stock_scores) |->
        stock_scores[CHOOSE i \in 1..Len(stock_scores) : sort_place(stock_scores, i) = place]]

\* the entries that compare_stocks makes of the results of analyze_all_stocks
StockScores(results, tickers) ==
    LET successful == SelectSeq(tickers, LAMBDA t : results[t].success)
    IN  [i \in 1..Len(successful) |->
            [ticker |-> successful[i],
             company |-> Get(results[successful[i]].data, "companyName"),
             score |-> results[successful[i]].data.score,
             valuation |-> results[successful[i]].data.valuation]]

compare_stocks(repository, now) ==
    LET done == analyze_all_stocks(repository, now)
    IN  [outcome |-> Returned(SortByScore(StockScores(done.outcome.value,
                                                      get_available_tickers(repository)))),
         repository |-> done.repository]

CompareStocks ==
    /\ clock < MaxClock
    /\ \E done \in {compare_stocks(MOCK_FINANCIAL_DATA, clock)} :
        /\ call' = [op |-> "compare_stocks", outcome |-> done.outcome]
        /\ MOCK_FINANCIAL_DATA' = done.repository
    /\ clock' = clock + 1
    /\ UNCHANGED <<threads, bot, conversation>>

CompareSpec == (Init \/ FaultInit) /\ [][CompareStocks]_vars

\* C30: compare_stocks returns one entry per successfully analysed ticker of
\* the repository, ordered by score from highest to lowest, each with the
\* score and the valuation that analyze_stock gives for that ticker
C30_Ranking ==
    call.op = "compare_stocks" =>
        LET ranked == call.outcome.value
            analysed == [t \in DOMAIN MOCK_FINANCIAL_DATA |->
                            analyze_stock(MOCK_FINANCIAL_DATA, Str(t), clock - 1).outcome.value]
            successful == {t \in DOMAIN analysed : analysed[t].success}
        IN  /\ Len(ranked) = Cardinality(successful)
            /\ {ranked[i].ticker : i \in 1..Len(ranked)} = successful
            /\ \A i \in 1..(Len(ranked) - 1) : ranked[i].score >= ranked[i + 1].score
            /\ \A i \in 1..Len(ranked) :
                  /\ ranked[i].score = analysed[ranked[i].ticker].data.score
                  /\ ranked[i].valuation = analysed[ranked[i].ticker].data.valuation

\* the ticker analysed last is ranked first of seven
C30_Witness ==
    /\ call.op = "compare_stocks"
    /\ Len(call.outcome.value) = 7
    /\ call.outcome.value[1].ticker = PatchedTicker
    /\ call.outcome.value[1].score > call.outcome.value[2].score

====
